---- MODULE Spec2Model ----
(***************************************************************************)
(* Model of the janice directory synchroniser: the diff engine             *)
(* (core.rs diff_scans, path_similarity), the apply engine (core.rs        *)
(* sync_changes with its parallel copy/rename workers), the journal        *)
(* (io.rs SyncJournal) and the command-line driver (main.rs run).          *)
(*                                                                         *)
(* A file's content is identified with its ContentHash (collisions are     *)
(* ignored); 0 stands for "no file at this path".                          *)
(***************************************************************************)
EXTENDS Integers, Sequences, FiniteSets, TLC

----------------------------------------------------------------------------
(* Bounds of the model                                                     *)

NPaths == 3          \* relative paths a tree may use: PathTable[1..NPaths]
NHashes == 2         \* distinct file contents
MaxFiles == 2        \* files per tree

----------------------------------------------------------------------------
(* Paths.  A relative path is a parent directory and a file name, each a   *)
(* sequence of characters.  Path::parent() of a relative file path is      *)
(* always Some (Some("") for a bare file name), file_name() always Some.   *)

PathTable ==
  << [dir |-> << >>,     name |-> <<"a">>],        \* a
     [dir |-> << >>,     name |-> <<"b">>],        \* b
     [dir |-> <<"x">>,   name |-> <<"c">>],        \* x/c
     [dir |-> << >>,     name |-> <<"A">>],        \* A
     [dir |-> <<"x">>,   name |-> <<"a", "b">>] >> \* x/ab

Paths == 1..NPaths
Hashes == 1..NHashes

Min2(a, b) == IF a <= b THEN a ELSE b
Max2(a, b) == IF a >= b THEN a ELSE b

\* str::eq_ignore_ascii_case compares after ASCII case folding
ToLower(c) ==
  CASE c = "A" -> "a" [] c = "B" -> "b" [] c = "C" -> "c" [] c = "Y" -> "y" [] OTHER -> c

eq_ignore_ascii_case(s, t) ==
  /\ Len(s) = Len(t)
  /\ \A i \in 1..Len(s) : ToLower(s[i]) = ToLower(t[i])

\* Edit distance with insertions, deletions, substitutions and adjacent
\* transpositions, on the prefixes s[1..i], t[1..j].  (For the names of
\* PathTable, of length at most 2, the restricted and the unrestricted
\* Damerau-Levenshtein distances coincide.)
RECURSIVE dl(_, _, _, _)
dl(s, t, i, j) ==
  IF i = 0 THEN j
  ELSE IF j = 0 THEN i
  ELSE LET cost == IF s[i] = t[j] THEN 0 ELSE 1
           base == Min2(Min2(dl(s, t, i - 1, j) + 1, dl(s, t, i, j - 1) + 1),
                        dl(s, t, i - 1, j - 1) + cost)
       IN  IF i > 1 /\ j > 1 /\ s[i] = t[j - 1] /\ s[i - 1] = t[j]
           THEN Min2(base, dl(s, t, i - 2, j - 2) + 1)
           ELSE base

\* Scores are exact rationals <<numerator, denominator>>, denominator > 0.
RatGT(a, b) == a[1] * b[2] > b[1] * a[2]
RatEQ(a, b) == a[1] * b[2] = b[1] * a[2]

\* strsim::normalized_damerau_levenshtein: 1 - distance / max length
\* (1.0 for two empty strings)
normalized_damerau_levenshtein(s, t) ==
  IF Len(s) = 0 /\ Len(t) = 0 THEN <<1, 1>>
  ELSE LET m == Max2(Len(s), Len(t))
       IN  <<m - dl(s, t, Len(s), Len(t)), m>>

CharSet(s) == {s[i] : i \in 1..Len(s)}

simple_string_similarity(s1, s2) ==
  IF s1 = s2 THEN <<1, 1>>
  ELSE IF Len(s1) = 0 \/ Len(s2) = 0 THEN <<0, 1>>
  ELSE LET inter == Cardinality(CharSet(s1) \cap CharSet(s2))
           union == Cardinality(CharSet(s1) \cup CharSet(s2))
       IN  IF union = 0 THEN <<0, 1>> ELSE <<inter, union>>

path_similarity(p1, p2) ==
  LET name1 == PathTable[p1].name
      name2 == PathTable[p2].name
  IN  IF eq_ignore_ascii_case(name1, name2) THEN <<95, 100>>
      ELSE LET f == normalized_damerau_levenshtein(name1, name2)
               d == simple_string_similarity(PathTable[p1].dir, PathTable[p2].dir)
           IN  <<7 * f[1] * d[2] + 3 * d[1] * f[2], 10 * f[2] * d[2]>>

----------------------------------------------------------------------------
(* Scans and the diff engine.  A scan is a sequence of FileMeta records    *)
(* [path, hash]; size, mtime and permissions play no part in diff_scans.   *)

FileMeta == [path : Paths, hash : Hashes]

PathsOf(scan) == {scan[i].path : i \in 1..Len(scan)}
UniquePaths(scan) == \A i, j \in 1..Len(scan) : scan[i].path = scan[j].path => i = j

\* dest_by_path.get(path): the index of the file at that path, 0 when absent
dest_by_path(dest, path) ==
  IF \E j \in 1..Len(dest) : dest[j].path = path
  THEN CHOOSE j \in 1..Len(dest) :
         /\ dest[j].path = path
         /\ \A k \in 1..Len(dest) : dest[k].path = path => k <= j
  ELSE 0

\* dest_by_hash.get(hash): the destination files with that hash, in dest order
dest_by_hash(dest, hash) == SelectSeq(dest, LAMBDA d : d.hash = hash)

\* Mutant of best_match: candidates already paired are not skipped
RECURSIVE best_match_any(_, _, _, _, _, _)
best_match_any(s, cands, processed, k, best, best_score) ==
  IF k > Len(cands) THEN best
  ELSE LET score == path_similarity(s.path, cands[k].path)
       IN  IF RatGT(score, best_score)
           THEN best_match_any(s, cands, processed, k + 1, k, score)
           ELSE best_match_any(s, cands, processed, k + 1, best, best_score)

\* The candidate loop: best_score starts at 0.0 and a candidate replaces the
\* best match only with a strictly higher score.  Returns the index of the
\* best match among the candidates, 0 for None.
RECURSIVE best_match(_, _, _, _, _, _)
best_match(s, cands, processed, k, best, best_score) ==
  IF k > Len(cands) THEN best
  ELSE IF cands[k].path \in processed
       THEN best_match(s, cands, processed, k + 1, best, best_score)
       ELSE LET score == path_similarity(s.path, cands[k].path)
            IN  IF RatGT(score, best_score)
                THEN best_match(s, cands, processed, k + 1, k, score)
                ELSE best_match(s, cands, processed, k + 1, best, best_score)

EmptyAcc == [added |-> << >>, modified |-> << >>, renamed |-> << >>, processed |-> {}]

\* Mutant of diff_source_file: a renamed source file is also pushed to added
diff_source_file_also_added(acc, s, dest) ==
  LET j == dest_by_path(dest, s.path)
  IN  IF j # 0
      THEN [acc EXCEPT !.modified = IF s.hash # dest[j].hash
                                     THEN Append(@, s) ELSE @,
                       !.processed = @ \cup {dest[j].path}]
      ELSE LET cands == dest_by_hash(dest, s.hash)
               m == best_match(s, cands, acc.processed, 1, 0, <<0, 1>>)
           IN  IF m # 0
               THEN [acc EXCEPT !.renamed = Append(@, <<cands[m], s>>),
                                !.added = Append(@, s),
                                !.processed = @ \cup {cands[m].path}]
               ELSE [acc EXCEPT !.added = Append(@, s)]

\* Mutant of diff_source_file: the matched candidate is not marked processed
diff_source_file_unmarked(acc, s, dest) ==
  LET j == dest_by_path(dest, s.path)
  IN  IF j # 0
      THEN [acc EXCEPT !.modified = IF s.hash # dest[j].hash
                                     THEN Append(@, s) ELSE @,
                       !.processed = @ \cup {dest[j].path}]
      ELSE LET cands == dest_by_hash(dest, s.hash)
               m == best_match(s, cands, acc.processed, 1, 0, <<0, 1>>)
           IN  IF m # 0
               THEN [acc EXCEPT !.renamed = Append(@, <<cands[m], s>>)]
               ELSE [acc EXCEPT !.added = Append(@, s)]

\* One iteration of the loop over source.files
diff_source_file(acc, s, dest) ==
  LET j == dest_by_path(dest, s.path)
  IN  IF j # 0
      THEN [acc EXCEPT !.modified = IF s.hash # dest[j].hash
                                     THEN Append(@, s) ELSE @,
                       !.processed = @ \cup {dest[j].path}]
      ELSE LET cands == dest_by_hash(dest, s.hash)
               m == best_match(s, cands, acc.processed, 1, 0, <<0, 1>>)
           IN  IF m # 0
               THEN [acc EXCEPT !.renamed = Append(@, <<cands[m], s>>),
                                !.processed = @ \cup {cands[m].path}]
               ELSE [acc EXCEPT !.added = Append(@, s)]

RECURSIVE diff_source_loop(_, _, _, _)
diff_source_loop(acc, source, dest, i) ==
  IF i > Len(source) THEN acc
  ELSE diff_source_loop(diff_source_file(acc, source[i], dest), source, dest, i + 1)

diff_scans(source, dest) ==
  LET acc == diff_source_loop(EmptyAcc, source, dest, 1)
      removed == SelectSeq(dest, LAMBDA d : /\ d.path \notin PathsOf(source)
                                            /\ d.path \notin acc.processed)
  IN  [added |-> acc.added, removed |-> removed,
       modified |-> acc.modified, renamed |-> acc.renamed]

EmptyDiff == [added |-> << >>, removed |-> << >>, modified |-> << >>, renamed |-> << >>]

\* Every scan (sequence of FileMeta with unique paths) of at most n files
ScansUpTo(n) ==
  LET seqs == UNION {[1..k -> FileMeta] : k \in 0..n}
  IN  {s \in seqs : UniquePaths(s)}

----------------------------------------------------------------------------
(* Trees.  A directory tree maps each path to the content (hash) of the    *)
(* regular file there, 0 when there is none.                               *)

Trees == {t \in [Paths -> 0..NHashes] : Cardinality({p \in Paths : t[p] # 0}) <= MaxFiles}
FilesOf(tree) == {p \in Paths : tree[p] # 0}
DirOf(path) == PathTable[path].dir

\* The scans a tree can yield: one FileMeta per file, in any order (the
\* parallel walker and the parallel hashing fix no order).
ScansOfTree(tree) ==
  {s \in ScansUpTo(Cardinality(FilesOf(tree))) :
     /\ PathsOf(s) = FilesOf(tree)
     /\ \A i \in 1..Len(s) : s[i].hash = tree[s[i].path]}

----------------------------------------------------------------------------
(* The journal.  A line of the journal file is a record                    *)
(*   [kind, op, temp, final]                                               *)
(* kind "P" or "C" for a well-formed record; "X" for a line with another   *)
(* tag, "short" for a line of fewer than four fields (both skipped by      *)
(* recover), "unreadable" for a line whose read fails (recover stops       *)
(* reading there).  temp is a location: <<"tmp", pid, k>> is the file      *)
(* {pid}-{k}.tmp of temp_dir, <<"dst", p, 0>> the destination file at path *)
(* p (a path outside temp_dir).                                            *)

TmpLoc(n) == <<"tmp", n[1], n[2]>>
DstLoc(p) == <<"dst", p, 0>>

JLine(kind, op, temp, final) == [kind |-> kind, op |-> op, temp |-> temp, final |-> final]

\* the (op, temp, final) triple of a record
Triple(l) == <<l.op, l.temp, l.final>>

\* reader.lines() up to the first line whose read fails
RECURSIVE ReadableLines(_)
ReadableLines(j) ==
  IF j = << >> \/ Head(j).kind = "unreadable" THEN << >>
  ELSE <<Head(j)>> \o ReadableLines(Tail(j))

PendingOf(j) == SelectSeq(ReadableLines(j), LAMBDA l : l.kind = "P")
CommittedOf(j) == SelectSeq(ReadableLines(j), LAMBDA l : l.kind = "C")

\* Mutant of is_committed: the op field is not compared
is_committed_ignores_op(j, l) ==
  \E k \in 1..Len(CommittedOf(j)) :
    /\ CommittedOf(j)[k].temp = l.temp
    /\ CommittedOf(j)[k].final = l.final

is_committed(j, l) ==
  \E k \in 1..Len(CommittedOf(j)) : Triple(CommittedOf(j)[k]) = Triple(l)

\* the temp locations of the P records without a matching C record
UncommittedTemps(j) ==
  {PendingOf(j)[k].temp : k \in {i \in 1..Len(PendingOf(j)) : ~is_committed(j, PendingOf(j)[i])}}

\* SyncJournal::recover on a disk state d = [jex, journal, tdir, tfiles, dtree]
\* (journal file exists, its lines, temp_dir exists, names of the files in
\* temp_dir, destination tree).  err names the operation that fails:
\* "open" (File::open of the journal), "rm_journal" (remove_file_safe of the
\* journal), "none".  stuck is the set of locations whose remove_file fails;
\* those failures are ignored by recover and by cleanup_temp_dir.
cleanup_temp_dir(tfiles, stuck) == {n \in tfiles : TmpLoc(n) \in stuck}

recover(d, err, stuck) ==
  IF ~d.jex
  THEN [ok |-> TRUE,
        disk |-> [d EXCEPT !.tfiles = IF d.tdir THEN cleanup_temp_dir(@, stuck) ELSE @]]
  ELSE IF err = "open" THEN [ok |-> FALSE, disk |-> d]
  ELSE LET gone == UncommittedTemps(d.journal) \ stuck
           d1 == [d EXCEPT !.tfiles = {n \in @ : TmpLoc(n) \notin gone},
                           !.dtree = [p \in Paths |->
                                        IF DstLoc(p) \in gone THEN 0 ELSE @[p]]]
       IN  IF err = "rm_journal" THEN [ok |-> FALSE, disk |-> d1]
           ELSE [ok |-> TRUE,
                 disk |-> [d1 EXCEPT !.jex = FALSE, !.journal = << >>,
                                     !.tfiles = IF d1.tdir
                                                THEN cleanup_temp_dir(@, stuck) ELSE @]]

----------------------------------------------------------------------------
VARIABLES
  pc,             \* position of the main thread
  srcTree,        \* the source tree
  dstTree,        \* the destination tree (without .jan-tmp and .jan-journal)
  dst0,           \* the destination tree before the first apply
  delete_removed, \* SyncOptions::delete_removed
  cli,            \* the command line flags of main.rs (Cli): dry_run, yes, quiet
  input,          \* the line read from stdin at the confirmation prompt
  src_scan, dst_scan, diff,
  tmpDir,         \* <dest>/.jan-tmp exists
  tmpFiles,       \* names of the files in <dest>/.jan-tmp
  journalExists,  \* <dest>/.jan-journal exists
  journal,        \* its lines
  workers,        \* per item of the current parallel phase: [st, tmp, committed, at]
  phaseErr,       \* a worker of the current phase has returned an error
  written_dirs,   \* sync_changes::written_dirs
  fsynced,        \* directories whose fsync has been attempted
  fsync_warned,   \* directories whose fsync failed (the warning printed for them)
  delIdx,         \* next index of the delete loop
  tempCounter,    \* io::TEMP_COUNTER
  pid,            \* process id of the current run
  result,         \* what the run returned: "none" (running), "ok", or the
                  \* error "err_recover", "err_preamble", "err_copy",
                  \* "err_rename", "err_delete"
  crashed,        \* the first run was interrupted
  faults,         \* I/O failures injected so far
  pre,            \* the destination tree when the current sync_changes began
  stuckFiles,     \* locations whose remove_file fails
  disk0,          \* the disk state SyncJournal::recover was given (SpecRecover)
  writer,         \* an AtomicWriter (SpecWriter)
  wfs,            \* the files at its temp_path and final_path
  whist,          \* what was done with it: final_path before, slices written,
                  \* expected hash given to commit, result
  jw,             \* a SyncJournal written by concurrent callers (SpecJournal):
                  \* its mutex, its BufWriter buffer, the journal file, and
                  \* the state of each caller
  sc,             \* one call of scan_directory_with_excludes (SpecScan)
  hf              \* one call of hash_file (SpecHashFile)

diffVars == <<src_scan, dst_scan, diff>>
diskVars == <<dstTree, tmpDir, tmpFiles, journalExists, journal>>
runVars == <<workers, phaseErr, written_dirs, fsynced, fsync_warned, delIdx, tempCounter>>
writerVars == <<writer, wfs, whist, jw, sc, hf>>
envVars == <<srcTree, dst0, delete_removed, cli, input, pid, crashed, stuckFiles, disk0, writerVars>>

vars == <<pc, srcTree, dstTree, dst0, delete_removed, cli, input, src_scan, dst_scan, diff,
          tmpDir, tmpFiles, journalExists, journal, workers, phaseErr,
          written_dirs, fsynced, fsync_warned, delIdx, tempCounter, pid, result, crashed, faults,
          pre, stuckFiles, disk0, writer, wfs, whist, jw, sc, hf>>

EmptyDisk == [jex |-> FALSE, journal |-> << >>, tdir |-> FALSE, tfiles |-> {},
              dtree |-> [p \in Paths |-> 0]]

\* a file: whether it exists, and its bytes
NoFile == [exists |-> FALSE, bytes |-> << >>]
FileOf(b) == [exists |-> TRUE, bytes |-> b]

\* Option<Hasher>::None, ContentHash of no expected hash
NoHasher == [some |-> FALSE, state |-> 0]
NoHash == 0

\* a SyncJournal nobody writes to
NoJournalWriter == [lock |-> 0, buffer |-> << >>, file |-> << >>, callers |-> << >>]

\* a command line with --yes alone
NoCli == [dry_run |-> FALSE, yes |-> TRUE, quiet |-> FALSE]

\* stdin has not been read
NoInput == [read |-> FALSE, line |-> << >>]

\* no scan is running
NoScan == [root_exists |-> FALSE, patterns |-> << >>, visited |-> {}, file_paths |-> << >>,
           file_metas |-> << >>, files |-> << >>, error_count |-> 0, result |-> "none"]

\* no hash_file is running
NoHashFile == [contents |-> << >>, pos |-> 0, buffer |-> << >>, hasher |-> 0,
               failed |-> FALSE, result |-> "none", hash |-> 0]

\* no AtomicWriter has been created
NoWriter ==
  /\ jw = NoJournalWriter
  /\ sc = NoScan
  /\ hf = NoHashFile
  /\ writer = [st |-> "none", verify |-> FALSE, buffer |-> << >>, hasher |-> NoHasher,
               committed |-> FALSE]
  /\ wfs = [temp |-> NoFile, final |-> NoFile]
  /\ whist = [final0 |-> NoFile, slices |-> << >>, expected |-> NoHash, result |-> "none"]

\* the state of a process that has not started sync_changes
FreshRun ==
  /\ workers = << >>
  /\ phaseErr = FALSE
  /\ written_dirs = {}
  /\ fsynced = {}
  /\ fsync_warned = {}
  /\ delIdx = 1
  /\ tempCounter = 0

\* a destination without leftovers of an earlier apply
CleanDisk ==
  /\ tmpDir = FALSE
  /\ tmpFiles = {}
  /\ journalExists = FALSE
  /\ journal = << >>

----------------------------------------------------------------------------
(* SpecDiff: diff_scans applied to every pair of scans within the bounds   *)

InitDiff ==
  /\ pc = "input"
  /\ src_scan \in ScansUpTo(MaxFiles)
  /\ dst_scan \in ScansUpTo(MaxFiles)
  /\ diff = EmptyDiff
  /\ srcTree = [p \in Paths |-> 0]
  /\ dstTree = [p \in Paths |-> 0]
  /\ dst0 = dstTree
  /\ delete_removed = FALSE
  /\ cli = NoCli
  /\ input = NoInput
  /\ CleanDisk
  /\ FreshRun
  /\ NoWriter
  /\ pid = 1
  /\ result = "none"
  /\ crashed = FALSE
  /\ faults = 0
  /\ pre = dstTree
  /\ stuckFiles = {}
  /\ disk0 = EmptyDisk

DoDiff ==
  /\ pc = "input"
  /\ diff' = diff_scans(src_scan, dst_scan)
  /\ pc' = "diffed_only"
  /\ UNCHANGED <<src_scan, dst_scan, diskVars, runVars, envVars, result, faults, pre>>

NextDiff == DoDiff

SpecDiff == InitDiff /\ [][NextDiff]_vars

----------------------------------------------------------------------------
(* Spec: the tool run against a source and a destination tree -- scan,     *)
(* diff, sync_changes with its parallel workers -- with I/O failures, and  *)
(* one interruption (the process is killed) followed by a fresh run, and   *)
(* one file of the destination removed by somebody else before the apply.  *)

MaxFaults == 1       \* I/O failures injected per behaviour

\* Hash values are names of contents: only the labellings in which the
\* contents are numbered in order of first use (source paths, then
\* destination paths) are started from.
FirstUse(s, d, h) ==
  LET ps == {p \in Paths : s[p] = h}
      pd == {p \in Paths : d[p] = h}
  IN  IF ps # {} THEN CHOOSE p \in ps : \A q \in ps : p <= q
      ELSE IF pd # {} THEN NPaths + (CHOOSE p \in pd : \A q \in pd : p <= q)
      ELSE 0

CanonicalHashes(s, d) ==
  \A h \in Hashes :
    FirstUse(s, d, h) # 0 /\ h > 1 =>
      /\ FirstUse(s, d, h - 1) # 0
      /\ FirstUse(s, d, h - 1) < FirstUse(s, d, h)

Init ==
  /\ pc = "start"
  /\ srcTree \in Trees
  /\ dstTree \in Trees
  /\ CanonicalHashes(srcTree, dstTree)
  /\ dst0 = dstTree
  /\ delete_removed \in BOOLEAN
  /\ cli \in [dry_run : BOOLEAN, yes : {TRUE}, quiet : {FALSE}]  \* run with --yes
  /\ input = NoInput
  /\ src_scan = << >>
  /\ dst_scan = << >>
  /\ diff = EmptyDiff
  /\ CleanDisk
  /\ FreshRun
  /\ NoWriter
  /\ pid = 1
  /\ result = "none"
  /\ crashed = FALSE
  /\ faults = 0
  /\ pre = dstTree
  /\ stuckFiles = {}
  /\ disk0 = EmptyDisk

CanFail == faults < MaxFaults

\* main.rs run: scan both trees and diff them
Scan ==
  /\ pc = "start"
  /\ src_scan' \in ScansOfTree(srcTree)
  /\ dst_scan' \in ScansOfTree(dstTree)
  /\ diff' = diff_scans(src_scan', dst_scan')
  /\ pc' = "diffed"
  /\ UNCHANGED <<diskVars, runVars, envVars, result, faults, pre>>

\* main.rs run: "In sync" -- nothing to change, return without sync_changes
InSync(d, del) ==
  /\ Len(d.added) + Len(d.modified) + Len(d.renamed) = 0
  /\ (~del \/ d.removed = << >>)

InSyncExit ==
  /\ pc = "diffed"
  /\ InSync(diff, delete_removed)
  /\ pc' = "exit"
  /\ result' = "ok"
  /\ UNCHANGED <<diffVars, diskVars, runVars, envVars, faults, pre>>

\* Mutant of dry_run_returns: the flag is not looked at
dry_run_ignored(c) == FALSE

\* main.rs run: if cli.dry_run { .. return Ok(()) }
dry_run_returns(c) == c.dry_run

\* main.rs run: dry run -- the summary has been printed, return without
\* sync_changes
DryRunExit ==
  /\ pc = "diffed"
  /\ ~InSync(diff, delete_removed)
  /\ dry_run_returns(cli)
  /\ pc' = "exit"
  /\ result' = "ok"
  /\ UNCHANGED <<diffVars, diskVars, runVars, envVars, faults, pre>>

\* the lines stdin can hold: end of input, "y", "Y", " y", "n", an empty
\* line, "yes"
InputLines ==
  { << >>, <<"y", "\n">>, <<"Y", "\n">>, <<" ", "y", "\n">>, <<"n", "\n">>, <<"\n">>,
    <<"y", "e", "s", "\n">> }

is_whitespace(c) == c \in {" ", "\n", "\t", "\r"}

\* str::trim: leading and trailing whitespace removed
RECURSIVE trim_start(_)
trim_start(s) ==
  IF s # << >> /\ is_whitespace(Head(s)) THEN trim_start(Tail(s)) ELSE s

RECURSIVE trim_end(_)
trim_end(s) ==
  IF s # << >> /\ is_whitespace(s[Len(s)]) THEN trim_end(SubSeq(s, 1, Len(s) - 1)) ELSE s

trim(s) == trim_end(trim_start(s))

\* main.rs run: input.trim().eq_ignore_ascii_case("y")
answers_yes(line) == eq_ignore_ascii_case(trim(line), <<"y">>)

\* main.rs run: if !cli.yes && !cli.quiet { .. } -- the prompt is shown
prompt_shown(c) == ~c.yes /\ ~c.quiet

\* main.rs run: the statement after the confirmation block is reached -- the
\* prompt was not shown, or it was and the answer read was "y"
confirm_passed(c, in) == prompt_shown(c) => (in.read /\ answers_yes(in.line))

\* main.rs run: the confirmation prompt -- "Proceed? [y/N] " is printed, a
\* line is read from stdin, and on any answer but "y" the run returns Ok
\* without sync_changes
Confirm ==
  /\ pc = "diffed"
  /\ ~InSync(diff, delete_removed)
  /\ ~dry_run_returns(cli)
  /\ prompt_shown(cli)
  /\ ~input.read
  /\ \E line \in InputLines :
       /\ input' = [read |-> TRUE, line |-> line]
       /\ IF answers_yes(line)
          THEN UNCHANGED <<pc, result>>
          ELSE pc' = "exit" /\ result' = "ok"
  /\ UNCHANGED <<diffVars, diskVars, runVars, srcTree, dst0, delete_removed, cli, pid, crashed,
                 stuckFiles, disk0, writerVars, faults, pre>>

\* the destination still holds every file of dst_scan as it was scanned
AsScanned(tree) == \A k \in 1..Len(dst_scan) : tree[dst_scan[k].path] = dst_scan[k].hash

\* Between the scan and the apply of the first run (the confirmation prompt is
\* in between) somebody else removes one file of the destination.
ExternalRemove ==
  /\ pc = "diffed"
  /\ ~crashed
  /\ AsScanned(dstTree)
  /\ \E p \in FilesOf(dstTree) :
       /\ dstTree' = [dstTree EXCEPT ![p] = 0]
       /\ dst0' = dstTree'
  /\ UNCHANGED <<pc, diffVars, tmpDir, tmpFiles, journalExists, journal, runVars, srcTree,
                 delete_removed, cli, input, pid, crashed, stuckFiles, disk0, writerVars, result,
                 faults, pre>>

Disk == [jex |-> journalExists, journal |-> journal, tdir |-> tmpDir,
         tfiles |-> tmpFiles, dtree |-> dstTree]

SetDisk(d) ==
  /\ journalExists' = d.jex
  /\ journal' = d.journal
  /\ tmpDir' = d.tdir
  /\ tmpFiles' = d.tfiles
  /\ dstTree' = d.dtree

\* Mutant of after_recover: the error of recover is not returned
after_recover_continues(ok) == "recovered"

\* SyncJournal::recover(..).map_err(..)?: an error of recover returns from
\* sync_changes
after_recover(ok) == IF ok THEN "recovered" ELSE "returned"

\* sync_changes begins: SyncJournal::recover; its error is returned.  The
\* removal of temp files may be refused by the file system (stuck), which
\* recover ignores.
Recover ==
  /\ pc = "diffed"
  /\ ~dry_run_returns(cli)
  /\ confirm_passed(cli, input)
  /\ pre' = dstTree
  /\ \E err \in {"none", "open", "rm_journal"}, stuck \in SUBSET {TmpLoc(n) : n \in tmpFiles} :
       LET failing == (err # "none" /\ journalExists) \/ stuck # {}
           r == recover(Disk, err, stuck)
       IN  /\ stuck # {} => err = "none"
           /\ failing => CanFail
           /\ faults' = IF failing THEN faults + 1 ELSE faults
           /\ SetDisk(r.disk)
           /\ pc' = after_recover(r.ok)
           /\ result' = IF r.ok THEN "none" ELSE "err_recover"
  /\ UNCHANGED <<diffVars, runVars, envVars>>

\* sync_changes: fs::create_dir_all(temp_dir)
CreateTempDir ==
  /\ pc = "recovered"
  /\ \/ /\ tmpDir' = TRUE
        /\ pc' = "mkjournal"
        /\ UNCHANGED <<result, faults>>
     \/ /\ CanFail
        /\ faults' = faults + 1
        /\ pc' = "returned"
        /\ result' = "err_preamble"
        /\ UNCHANGED tmpDir
  /\ UNCHANGED <<diffVars, dstTree, tmpFiles, journalExists, journal, runVars, envVars, pre>>

files_to_copy(d) == d.added \o d.modified

NoTemp == <<0, 0>>

NewWorkers(n) ==
  [i \in 1..n |-> [st |-> "todo", tmp |-> NoTemp, committed |-> FALSE, at |-> "none"]]

\* sync_changes: SyncJournal::create truncates or creates the journal file
CreateJournal ==
  /\ pc = "mkjournal"
  /\ \/ /\ journalExists' = TRUE
        /\ journal' = << >>
        /\ workers' = NewWorkers(Len(files_to_copy(diff)))
        /\ pc' = "copy"
        /\ UNCHANGED <<result, faults>>
     \/ /\ CanFail
        /\ faults' = faults + 1
        /\ pc' = "returned"
        /\ result' = "err_preamble"
        /\ UNCHANGED <<journalExists, journal, workers>>
  /\ UNCHANGED <<diffVars, dstTree, tmpDir, tmpFiles, phaseErr, written_dirs, fsynced, fsync_warned,
                 delIdx, tempCounter, envVars, pre>>

\* the source-side FileMeta the i-th worker of the current phase copies
ItemNew(i) == IF pc = "copy" THEN files_to_copy(diff)[i] ELSE diff.renamed[i][2]
ItemOld(i) == diff.renamed[i][1]

\* worker i returns an error; c: its AtomicWriter has committed; at: the
\* step it was at
WorkerFails(i, c) ==
  /\ CanFail
  /\ faults' = faults + 1
  /\ workers' = [workers EXCEPT ![i].st = "failed", ![i].committed = c, ![i].at = workers[i].st]
  /\ phaseErr' = TRUE

\* Mutant of fetch_add: the counter is read but not advanced
fetch_add_none(c) == c

\* TEMP_COUNTER.fetch_add(1, Relaxed): one atomic read-modify-write; the
\* value read is the counter before the step
fetch_add(c) == c + 1

\* generate_temp_path: temp_dir.join(format!("{pid}-{counter}.tmp"))
generate_temp_path(p, c) == TmpLoc(<<p, c>>)

\* a worker starts an item: create_dir_all(parent), written_dirs.insert,
\* generate_temp_path, journal.record_pending.  No item starts once a worker
\* of the phase has failed (try_for_each short-circuits).
WorkerBegin(i) ==
  /\ pc \in {"copy", "rename"}
  /\ workers[i].st = "todo"
  /\ ~phaseErr
  /\ \/ \* all succeed
        /\ written_dirs' = written_dirs \cup {DirOf(ItemNew(i).path)}
        /\ tempCounter' = fetch_add(tempCounter)
        /\ journal' = Append(journal,
                             JLine("P", IF pc = "copy" THEN "COPY" ELSE "RENAME",
                                   generate_temp_path(pid, tempCounter), ItemNew(i).path))
        /\ workers' = [workers EXCEPT ![i].st = "pending", ![i].tmp = <<pid, tempCounter>>]
        /\ UNCHANGED <<phaseErr, faults>>
     \/ \* create_dir_all fails
        /\ WorkerFails(i, workers[i].committed)
        /\ UNCHANGED <<written_dirs, tempCounter, journal>>
     \/ \* record_pending fails
        /\ WorkerFails(i, workers[i].committed)
        /\ written_dirs' = written_dirs \cup {DirOf(ItemNew(i).path)}
        /\ tempCounter' = fetch_add(tempCounter)
        /\ UNCHANGED journal
  /\ UNCHANGED <<pc, diffVars, dstTree, tmpDir, tmpFiles, journalExists, fsynced, fsync_warned, delIdx,
                 envVars, result, pre>>

\* atomic_copy_file_with_metadata: fs::metadata(source), AtomicWriter::new
\* creates the (empty) temp file
WorkerCreate(i) ==
  /\ pc \in {"copy", "rename"}
  /\ workers[i].st = "pending"
  /\ \/ /\ tmpFiles' = tmpFiles \cup {workers[i].tmp}
        /\ workers' = [workers EXCEPT ![i].st = "writing"]
        /\ UNCHANGED <<phaseErr, faults>>
     \/ /\ WorkerFails(i, workers[i].committed)
        /\ UNCHANGED tmpFiles
  /\ UNCHANGED <<pc, diffVars, dstTree, tmpDir, journalExists, journal, written_dirs,
                 fsynced, fsync_warned, delIdx, tempCounter, envVars, result, pre>>

\* atomic_copy_file_with_metadata: the copy loop, AtomicWriter::commit (flush,
\* fsync, rename of the temp file onto the destination path), then mtime and
\* permissions.  An error before the rename drops the writer, which removes
\* the temp file; an error after it leaves the destination replaced.
WorkerCommit(i) ==
  /\ pc \in {"copy", "rename"}
  /\ workers[i].st = "writing"
  /\ tmpFiles' = tmpFiles \ {workers[i].tmp}
  /\ \/ /\ dstTree' = [dstTree EXCEPT ![ItemNew(i).path] = srcTree[ItemNew(i).path]]
        /\ workers' = [workers EXCEPT ![i].st = "copied", ![i].committed = TRUE]
        /\ UNCHANGED <<phaseErr, faults>>
     \/ \* read, flush, fsync or rename fails
        /\ WorkerFails(i, FALSE)
        /\ UNCHANGED dstTree
     \/ \* set_file_mtime or set_file_permissions fails
        /\ WorkerFails(i, TRUE)
        /\ dstTree' = [dstTree EXCEPT ![ItemNew(i).path] = srcTree[ItemNew(i).path]]
  /\ UNCHANGED <<pc, diffVars, tmpDir, journalExists, journal, written_dirs,
                 fsynced, fsync_warned, delIdx, tempCounter, envVars, result, pre>>

\* Mutant of remove_file_safe: a missing file is an error
remove_file_safe_strict(tree, p, fails) ==
  IF fails \/ tree[p] = 0 THEN [ok |-> FALSE, tree |-> tree]
  ELSE [ok |-> TRUE, tree |-> [tree EXCEPT ![p] = 0]]

\* remove_file_safe(path) on a destination tree: fs::remove_file, with
\* NotFound turned into Ok; fails: remove_file returns another error
remove_file_safe(tree, p, fails) ==
  IF fails THEN [ok |-> FALSE, tree |-> tree]
  ELSE [ok |-> TRUE, tree |-> [tree EXCEPT ![p] = 0]]

\* Mutant of ready_to_remove_old: the old path is removed before the copy
\* onto the new path has returned
ready_to_remove_old_early(st) == st \in {"pending", "writing", "copied"}

\* remove_file_safe(old_dest_path) is reached after
\* atomic_copy_file_with_metadata(..)? has returned Ok
ready_to_remove_old(st) == st = "copied"

\* rename phase: remove_file_safe(old_dest_path)
WorkerRemoveOld(i) ==
  /\ pc = "rename"
  /\ ready_to_remove_old(workers[i].st)
  /\ \E fails \in BOOLEAN :
       LET r == remove_file_safe(dstTree, ItemOld(i).path, fails)
       IN  /\ fails => CanFail
           /\ dstTree' = r.tree
           /\ IF r.ok
              THEN /\ workers' = [workers EXCEPT ![i].st = "removed"]
                   /\ UNCHANGED <<phaseErr, faults>>
              ELSE /\ workers' = [workers EXCEPT ![i].st = "failed",
                                                 ![i].at = workers[i].st]
                   /\ phaseErr' = TRUE
                   /\ faults' = IF fails THEN faults + 1 ELSE faults
  /\ UNCHANGED <<pc, diffVars, tmpDir, tmpFiles, journalExists, journal, written_dirs,
                 fsynced, fsync_warned, delIdx, tempCounter, envVars, result, pre>>

\* Mutant of ready_to_record: the C record is written once the P record is
ready_to_record_early(phase, st) == st \in {"pending", "writing", "copied", "removed"}

\* record_committed is reached after atomic_copy_file_with_metadata has
\* returned Ok (copy phase) and, in the rename phase, after the removal of
\* the old path as well
ready_to_record(phase, st) ==
  \/ phase = "copy" /\ st = "copied"
  \/ phase = "rename" /\ st = "removed"

\* Mutant of record_committed_line: the line is written with the kind of a
\* pending record
record_committed_line_as_pending(op, temp, final) == JLine("P", op, temp, final)

\* the line record_committed writes: "C\t{op}\t{temp}\t{final}"
record_committed_line(op, temp, final) == JLine("C", op, temp, final)

\* journal.record_committed
WorkerRecordC(i) ==
  /\ pc \in {"copy", "rename"}
  /\ ready_to_record(pc, workers[i].st)
  /\ \/ /\ journal' = Append(journal,
                             record_committed_line(IF pc = "copy" THEN "COPY" ELSE "RENAME",
                                                   TmpLoc(workers[i].tmp), ItemNew(i).path))
        /\ workers' = [workers EXCEPT ![i].st = "done"]
        /\ UNCHANGED <<phaseErr, faults>>
     \/ /\ WorkerFails(i, workers[i].committed)
        /\ UNCHANGED journal
  /\ UNCHANGED <<pc, diffVars, dstTree, tmpDir, tmpFiles, journalExists, written_dirs,
                 fsynced, fsync_warned, delIdx, tempCounter, envVars, result, pre>>

\* Mutant of PhaseJoined: the phase is left without waiting for its workers
PhaseJoined_nowait == TRUE

\* every worker of the phase has returned (items not started after a failure
\* are never run)
PhaseJoined ==
  \A i \in 1..Len(workers) :
    \/ workers[i].st \in {"done", "failed"}
    \/ phaseErr /\ workers[i].st = "todo"

\* the error path of a parallel phase: journal.remove, remove_dir_all(temp_dir),
\* return Err
PhaseFailed ==
  /\ pc \in {"copy", "rename"}
  /\ PhaseJoined
  /\ phaseErr
  /\ journalExists' = FALSE
  /\ journal' = << >>
  /\ tmpDir' = FALSE
  /\ tmpFiles' = {}
  /\ pc' = "returned"
  /\ result' = IF pc = "copy" THEN "err_copy" ELSE "err_rename"
  /\ UNCHANGED <<diffVars, dstTree, runVars, envVars, faults, pre>>

\* the copy phase has joined without error: the rename phase starts
CopyJoin ==
  /\ pc = "copy"
  /\ PhaseJoined
  /\ ~phaseErr
  /\ workers' = NewWorkers(Len(diff.renamed))
  /\ pc' = "rename"
  /\ UNCHANGED <<diffVars, diskVars, phaseErr, written_dirs, fsynced, fsync_warned, delIdx,
                 tempCounter, envVars, result, faults, pre>>

\* Mutant of after_renames: the delete loop runs without delete_removed
after_renames_deletes(del, removed) == IF removed # << >> THEN "delete" ELSE "fsync"

\* if options.delete_removed { for file in &diff.removed { .. } }
after_renames(del, removed) == IF del /\ removed # << >> THEN "delete" ELSE "fsync"

\* the rename phase has joined without error
RenameJoin ==
  /\ pc = "rename"
  /\ PhaseJoined
  /\ ~phaseErr
  /\ pc' = after_renames(delete_removed, diff.removed)
  /\ UNCHANGED <<diffVars, diskVars, runVars, envVars, result, faults, pre>>

\* one iteration of the delete loop: remove_file_safe, written_dirs.insert;
\* an error is returned at once
DeleteStep ==
  /\ pc = "delete"
  /\ delIdx <= Len(diff.removed)
  /\ \E fails \in BOOLEAN :
       LET r == remove_file_safe(dstTree, diff.removed[delIdx].path, fails)
       IN  /\ fails => CanFail
           /\ faults' = IF fails THEN faults + 1 ELSE faults
           /\ dstTree' = r.tree
           /\ IF r.ok
              THEN /\ written_dirs' = written_dirs \cup {DirOf(diff.removed[delIdx].path)}
                   /\ delIdx' = delIdx + 1
                   /\ pc' = IF delIdx + 1 > Len(diff.removed) THEN "fsync" ELSE "delete"
                   /\ UNCHANGED result
              ELSE /\ pc' = "returned"
                   /\ result' = "err_delete"
                   /\ UNCHANGED <<written_dirs, delIdx>>
  /\ UNCHANGED <<diffVars, tmpDir, tmpFiles, journalExists, journal, workers, phaseErr,
                 fsynced, fsync_warned, tempCounter, envVars, pre>>

\* Mutant of after_fsync: a failed directory fsync returns from sync_changes
after_fsync_propagates(failed) == IF failed THEN "returned" ELSE "fsync"

\* if let Err(e) = fsync_directory(dir) { eprintln!(..) }: the loop goes on
after_fsync(failed) == "fsync"

\* fsync_directory of one of written_dirs; a failure is logged and ignored
FsyncDir ==
  /\ pc = "fsync"
  /\ \E dir \in written_dirs \ fsynced :
       /\ fsynced' = fsynced \cup {dir}
       /\ \/ /\ UNCHANGED <<faults, fsync_warned>>
             /\ pc' = after_fsync(FALSE)
          \/ /\ CanFail
             /\ faults' = faults + 1
             /\ fsync_warned' = fsync_warned \cup {dir}
             /\ pc' = after_fsync(TRUE)
  /\ UNCHANGED <<diffVars, diskVars, workers, phaseErr, written_dirs, delIdx,
                 tempCounter, envVars, result, pre>>

\* clean exit: journal.remove
FinishJournal ==
  /\ pc = "fsync"
  /\ fsynced = written_dirs
  /\ journalExists' = FALSE
  /\ journal' = << >>
  /\ pc' = "rmtmp"
  /\ UNCHANGED <<diffVars, dstTree, tmpDir, tmpFiles, runVars, envVars, result, faults, pre>>

\* clean exit: fs::remove_dir_all(temp_dir), return Ok
FinishTempDir ==
  /\ pc = "rmtmp"
  /\ tmpDir' = FALSE
  /\ tmpFiles' = {}
  /\ pc' = "returned"
  /\ result' = "ok"
  /\ UNCHANGED <<diffVars, dstTree, journalExists, journal, runVars, envVars, faults, pre>>

\* The process is killed inside sync_changes: memory is lost (no destructor
\* runs), the disk stays as it is, and the tool is started again.
Crash ==
  /\ ~crashed
  /\ pc \in {"recovered", "mkjournal", "copy", "rename", "delete", "fsync", "rmtmp"}
  /\ crashed' = TRUE
  /\ pid' = pid + 1
  /\ pc' = "start"
  /\ src_scan' = << >>
  /\ dst_scan' = << >>
  /\ diff' = EmptyDiff
  /\ workers' = << >>
  /\ phaseErr' = FALSE
  /\ written_dirs' = {}
  /\ fsynced' = {}
  /\ fsync_warned' = {}
  /\ delIdx' = 1
  /\ tempCounter' = 0
  /\ result' = "none"
  /\ input' = NoInput
  /\ UNCHANGED <<diskVars, srcTree, dst0, delete_removed, cli, faults, pre, stuckFiles, disk0,
                 writerVars>>

Worker ==
  \E i \in 1..Len(workers) :
    \/ WorkerBegin(i)
    \/ WorkerCreate(i)
    \/ WorkerCommit(i)
    \/ WorkerRemoveOld(i)
    \/ WorkerRecordC(i)

Next ==
  \/ Scan
  \/ InSyncExit
  \/ DryRunExit
  \/ ExternalRemove
  \/ Recover
  \/ CreateTempDir
  \/ CreateJournal
  \/ Worker
  \/ PhaseFailed
  \/ CopyJoin
  \/ RenameJoin
  \/ DeleteStep
  \/ FsyncDir
  \/ FinishJournal
  \/ FinishTempDir
  \/ Crash

Spec == Init /\ [][Next]_vars

----------------------------------------------------------------------------
(* SpecCli: the tool run with every combination of --dry-run, --delete,     *)
(* --yes and --quiet and every line on stdin, against a destination whose   *)
(* I/O does not fail and without interruption.                              *)

InitCli ==
  /\ pc = "start"
  /\ srcTree \in Trees
  /\ dstTree \in Trees
  /\ CanonicalHashes(srcTree, dstTree)
  /\ dst0 = dstTree
  /\ delete_removed \in BOOLEAN
  /\ cli \in [dry_run : BOOLEAN, yes : BOOLEAN, quiet : BOOLEAN]
  /\ input = NoInput
  /\ src_scan = << >>
  /\ dst_scan = << >>
  /\ diff = EmptyDiff
  /\ CleanDisk
  /\ FreshRun
  /\ NoWriter
  /\ pid = 1
  /\ result = "none"
  /\ crashed = FALSE
  /\ faults = MaxFaults
  /\ pre = dstTree
  /\ stuckFiles = {}
  /\ disk0 = EmptyDisk

NextCli ==
  \/ Scan
  \/ InSyncExit
  \/ DryRunExit
  \/ Confirm
  \/ ExternalRemove
  \/ Recover
  \/ CreateTempDir
  \/ CreateJournal
  \/ Worker
  \/ CopyJoin
  \/ RenameJoin
  \/ DeleteStep
  \/ FsyncDir
  \/ FinishJournal
  \/ FinishTempDir

SpecCli == InitCli /\ [][NextCli]_vars

----------------------------------------------------------------------------
(* SpecRecover: SyncJournal::recover applied to every journal content,     *)
(* temp directory and set of failing removals within the bounds            *)

MaxJournalLines == 2 \* lines of a journal given to recover

RecTempNames == {<<1, 0>>, <<1, 1>>}
RecLocs == {TmpLoc(<<1, 0>>), TmpLoc(<<1, 1>>), DstLoc(1)}

RecLines ==
  {JLine(k, op, tmp, f) : k \in {"P", "C"}, op \in {"COPY", "RENAME"},
                          tmp \in RecLocs, f \in {1, 2}}
  \cup {JLine(k, "COPY", TmpLoc(<<1, 0>>), 1) : k \in {"X", "short", "unreadable"}}

InitRecover ==
  /\ pc = "rec_input"
  /\ journalExists \in BOOLEAN
  /\ journal \in UNION {[1..k -> RecLines] : k \in 0..MaxJournalLines}
  /\ (~journalExists => journal = << >>)
  /\ tmpDir \in BOOLEAN
  /\ tmpFiles \in SUBSET RecTempNames
  /\ (~tmpDir => tmpFiles = {})
  /\ dstTree \in {[p \in Paths |-> IF p = 1 THEN h ELSE 0] : h \in {0, 1}}
  /\ stuckFiles \in SUBSET {TmpLoc(<<1, 0>>), DstLoc(1)}
  /\ disk0 = Disk
  /\ srcTree = [p \in Paths |-> 0]
  /\ dst0 = dstTree
  /\ pre = dstTree
  /\ delete_removed = FALSE
  /\ cli = NoCli
  /\ input = NoInput
  /\ src_scan = << >>
  /\ dst_scan = << >>
  /\ diff = EmptyDiff
  /\ FreshRun
  /\ NoWriter
  /\ pid = 2
  /\ result = "none"
  /\ crashed = FALSE
  /\ faults = 0

DoRecover ==
  /\ pc = "rec_input"
  /\ \E err \in {"none", "open", "rm_journal"} :
       LET r == recover(Disk, err, stuckFiles)
       IN  /\ SetDisk(r.disk)
           /\ result' = IF r.ok THEN "ok" ELSE "err_recover"
  /\ pc' = "rec_done"
  /\ UNCHANGED <<diffVars, runVars, envVars, faults, pre>>

NextRecover == DoRecover

SpecRecover == InitRecover /\ [][NextRecover]_vars

----------------------------------------------------------------------------
(* SpecWriter: one AtomicWriter -- new, write, commit (which consumes and   *)
(* drops it) or drop without commit -- over byte sequences, with I/O        *)
(* failures.                                                                *)

ByteValues == 2        \* bytes are 0 .. ByteValues - 1
MaxSliceLen == 2       \* length of a slice given to write
MaxWrites == 2         \* calls of write on one writer
BufCapacity == 2       \* capacity of the BufWriter (COPY_BUFFER_SIZE, scaled)

Bytes == 0..(ByteValues - 1)
Slices == UNION {[1..n -> Bytes] : n \in 0..MaxSliceLen}

\* Mutant of hasher_update: the digest state is started afresh by each update
RECURSIVE hasher_update_restarts(_, _)
hasher_update_restarts(h, data) ==
  IF data = << >> THEN 0
  ELSE hasher_update_restarts(h, SubSeq(data, 1, Len(data) - 1)) * (ByteValues + 1)
       + data[Len(data)] + 1

\* Hasher: new, update (absorbs the bytes of a slice one after the other),
\* finalize.  The digest is a positional code of the absorbed bytes, so that
\* different byte sequences have different digests.
RECURSIVE hasher_update(_, _)
hasher_update(h, data) ==
  IF data = << >> THEN h
  ELSE hasher_update(h * (ByteValues + 1) + Head(data) + 1, Tail(data))

hasher_new == 0
hasher_finalize(h) == h + 1
hash_bytes(data) == hasher_finalize(hasher_update(hasher_new, data))

\* the concatenation, in call order, of the slices given to write
RECURSIVE Concat(_)
Concat(ss) == IF ss = << >> THEN << >> ELSE Head(ss) \o Concat(Tail(ss))

\* the temp path of the writer
WriterTemp == TmpLoc(<<1, 0>>)

\* Mutant of bufwriter_write_all: a buffer that has to make room is discarded
bufwriter_write_all_discards(file, buffer, buf) ==
  LET spare == BufCapacity - Len(buffer)
  IN  IF Len(buf) < spare
      THEN [file |-> file, buffer |-> buffer \o buf]
      ELSE IF Len(buf) >= BufCapacity
           THEN [file |-> file \o buf, buffer |-> << >>]
           ELSE [file |-> file, buffer |-> buf]

\* BufWriter::write_all(buf) on a file holding `file` with `buffer` pending:
\* a slice smaller than the spare capacity is buffered; otherwise the buffer
\* is flushed when the slice does not fit, and the slice is written through
\* when it is as large as the capacity, buffered when not.
bufwriter_write_all(file, buffer, buf) ==
  LET spare == BufCapacity - Len(buffer)
      fl == IF Len(buf) > spare
            THEN [file |-> file \o buffer, buffer |-> << >>]
            ELSE [file |-> file, buffer |-> buffer]
  IN  IF Len(buf) < spare
      THEN [file |-> file, buffer |-> buffer \o buf]
      ELSE IF Len(buf) >= BufCapacity
           THEN [file |-> fl.file \o buf, buffer |-> fl.buffer]
           ELSE [file |-> fl.file, buffer |-> fl.buffer \o buf]

\* Mutant of verify_ok: the comparison is skipped
verify_ok_always(w, expected) == TRUE

\* commit: the hash comparison, made only when the writer has a hasher and an
\* expected hash is given
verify_ok(w, expected) ==
  (w.hasher.some /\ expected # NoHash) => hasher_finalize(w.hasher.state) = expected

\* Mutant of drop_writer: the temp file is never removed
drop_writer_keeps(w, fs, stuck) ==
  [fs EXCEPT !.temp = IF @.exists THEN FileOf(@.bytes \o w.buffer) ELSE @]

\* Drop for AtomicWriter, then the drop of its BufWriter: a writer that is not
\* committed removes the file at temp_path (a failure of the removal is
\* ignored); the buffer is then flushed into the file if it is still there.
drop_writer(w, fs, stuck) ==
  IF w.committed \/ ~fs.temp.exists THEN fs
  ELSE IF WriterTemp \in stuck
       THEN [fs EXCEPT !.temp = FileOf(@.bytes \o w.buffer)]
       ELSE [fs EXCEPT !.temp = NoFile]

InitWriter ==
  /\ pc = "w_input"
  /\ writer = [st |-> "none", verify |-> FALSE, buffer |-> << >>, hasher |-> NoHasher,
               committed |-> FALSE]
  /\ \E f \in {NoFile, FileOf(<< >>), FileOf(<<0>>)} :
       /\ wfs = [temp |-> NoFile, final |-> f]
       /\ whist = [final0 |-> f, slices |-> << >>, expected |-> NoHash, result |-> "none"]
  /\ jw = NoJournalWriter
  /\ sc = NoScan
  /\ hf = NoHashFile
  /\ stuckFiles \in SUBSET {WriterTemp}
  /\ srcTree = [p \in Paths |-> 0]
  /\ dstTree = [p \in Paths |-> 0]
  /\ dst0 = dstTree
  /\ pre = dstTree
  /\ delete_removed = FALSE
  /\ cli = NoCli
  /\ input = NoInput
  /\ src_scan = << >>
  /\ dst_scan = << >>
  /\ diff = EmptyDiff
  /\ CleanDisk
  /\ FreshRun
  /\ disk0 = EmptyDisk
  /\ pid = 1
  /\ result = "none"
  /\ crashed = FALSE
  /\ faults = 0

\* AtomicWriter::new: File::create(temp_path), BufWriter, hasher if verify
WriterNew ==
  /\ pc = "w_input"
  /\ \/ \E v \in BOOLEAN :
          /\ writer' = [st |-> "open", verify |-> v, buffer |-> << >>,
                        hasher |-> IF v THEN [some |-> TRUE, state |-> hasher_new]
                                   ELSE NoHasher,
                        committed |-> FALSE]
          /\ wfs' = [wfs EXCEPT !.temp = FileOf(<< >>)]
          /\ pc' = "w_open"
          /\ UNCHANGED <<whist, faults>>
     \/ /\ CanFail
        /\ faults' = faults + 1
        /\ whist' = [whist EXCEPT !.result = "err_new"]
        /\ pc' = "w_done"
        /\ UNCHANGED <<writer, wfs>>
  /\ UNCHANGED <<jw, sc, hf, diffVars, diskVars, runVars, srcTree, dst0, delete_removed, cli, input, pid, crashed,
                 stuckFiles, disk0, result, pre>>

\* AtomicWriter::write(buf): writer.write_all(buf), hasher.update(buf)
WriterWrite ==
  /\ pc = "w_open"
  /\ Len(whist.slices) < MaxWrites
  /\ \E buf \in Slices :
       LET r == bufwriter_write_all(wfs.temp.bytes, writer.buffer, buf)
       IN  /\ wfs' = [wfs EXCEPT !.temp = FileOf(r.file)]
           /\ writer' = [writer EXCEPT
                           !.buffer = r.buffer,
                           !.hasher = IF @.some
                                      THEN [some |-> TRUE,
                                            state |-> hasher_update(@.state, buf)]
                                      ELSE @]
           /\ whist' = [whist EXCEPT !.slices = Append(@, buf)]
  /\ UNCHANGED <<jw, sc, hf, pc, diffVars, diskVars, runVars, srcTree, dst0, delete_removed, cli, input, pid,
                 crashed, stuckFiles, disk0, result, faults, pre>>

\* AtomicWriter::commit(expected_hash): flush, sync_all, hash comparison,
\* rename of temp_path onto final_path, committed = true; commit consumes the
\* writer, which is dropped when commit returns.
WriterCommit ==
  /\ pc = "w_open"
  /\ \E expected \in {NoHash, hash_bytes(Concat(whist.slices)), hash_bytes(<<0>>)} :
       LET flushed == [wfs EXCEPT !.temp = FileOf(@.bytes \o writer.buffer)]
           emptied == [writer EXCEPT !.buffer = << >>]
       IN  /\ \/ \* flush fails
                 /\ CanFail
                 /\ faults' = faults + 1
                 /\ wfs' = drop_writer(writer, wfs, stuckFiles)
                 /\ writer' = [writer EXCEPT !.st = "dropped"]
                 /\ whist' = [whist EXCEPT !.expected = expected, !.result = "err_io"]
              \/ \* sync_all fails
                 /\ CanFail
                 /\ faults' = faults + 1
                 /\ wfs' = drop_writer(emptied, flushed, stuckFiles)
                 /\ writer' = [emptied EXCEPT !.st = "dropped"]
                 /\ whist' = [whist EXCEPT !.expected = expected, !.result = "err_io"]
              \/ \* the hashes differ
                 /\ ~verify_ok(writer, expected)
                 /\ wfs' = drop_writer(emptied, flushed, stuckFiles)
                 /\ writer' = [emptied EXCEPT !.st = "dropped", !.hasher = NoHasher]
                 /\ whist' = [whist EXCEPT !.expected = expected, !.result = "InvalidData"]
                 /\ UNCHANGED faults
              \/ \* rename fails
                 /\ verify_ok(writer, expected)
                 /\ CanFail
                 /\ faults' = faults + 1
                 /\ wfs' = drop_writer(emptied, flushed, stuckFiles)
                 /\ writer' = [emptied EXCEPT !.st = "dropped"]
                 /\ whist' = [whist EXCEPT !.expected = expected, !.result = "err_io"]
              \/ \* success
                 /\ verify_ok(writer, expected)
                 /\ wfs' = drop_writer([emptied EXCEPT !.committed = TRUE],
                                       [temp |-> NoFile, final |-> flushed.temp],
                                       stuckFiles)
                 /\ writer' = [emptied EXCEPT !.st = "dropped", !.committed = TRUE]
                 /\ whist' = [whist EXCEPT !.expected = expected, !.result = "ok"]
                 /\ UNCHANGED faults
  /\ pc' = "w_done"
  /\ UNCHANGED <<jw, sc, hf, diffVars, diskVars, runVars, srcTree, dst0, delete_removed, cli, input, pid, crashed,
                 stuckFiles, disk0, result, pre>>

\* the writer goes out of scope without commit (also what the callers do
\* when a write returns an error)
WriterDrop ==
  /\ pc = "w_open"
  /\ wfs' = drop_writer(writer, wfs, stuckFiles)
  /\ writer' = [writer EXCEPT !.st = "dropped"]
  /\ whist' = [whist EXCEPT !.result = "dropped"]
  /\ pc' = "w_done"
  /\ UNCHANGED <<jw, sc, hf, diffVars, diskVars, runVars, srcTree, dst0, delete_removed, cli, input, pid, crashed,
                 stuckFiles, disk0, result, faults, pre>>

NextWriter ==
  \/ WriterNew
  \/ WriterWrite
  \/ WriterCommit
  \/ WriterDrop

SpecWriter == InitWriter /\ [][NextWriter]_vars

----------------------------------------------------------------------------
(* SpecJournal: concurrent workers calling record_pending and then          *)
(* record_committed on one SyncJournal.  A record is written piece by piece *)
(* (writeln! makes one write per literal and argument) into the BufWriter   *)
(* under the mutex, then flushed.                                           *)

JournalWriters == 2    \* concurrent callers
JournalCalls == 2      \* calls per caller: record_pending, record_committed
RecordPieces == 2      \* writes that writeln! makes for one record

\* the k-th piece of the record of call c of caller w
Piece(w, c, k) == <<w, c, k>>

\* Mutant of lock_free: the mutex excludes nobody
lock_free_always(l) == TRUE

\* Mutex::lock returns when nobody holds the mutex
lock_free(l) == l = 0

InitJournal ==
  /\ pc = "j_run"
  /\ jw = [lock |-> 0, buffer |-> << >>, file |-> << >>,
           callers |-> [w \in 1..JournalWriters |->
                          [st |-> "idle", call |-> 1, k |-> 0, ok |-> {}, err |-> {}]]]
  /\ sc = NoScan
  /\ hf = NoHashFile
  /\ writer = [st |-> "none", verify |-> FALSE, buffer |-> << >>, hasher |-> NoHasher,
               committed |-> FALSE]
  /\ wfs = [temp |-> NoFile, final |-> NoFile]
  /\ whist = [final0 |-> NoFile, slices |-> << >>, expected |-> NoHash, result |-> "none"]
  /\ stuckFiles = {}
  /\ srcTree = [p \in Paths |-> 0]
  /\ dstTree = [p \in Paths |-> 0]
  /\ dst0 = dstTree
  /\ pre = dstTree
  /\ delete_removed = FALSE
  /\ cli = NoCli
  /\ input = NoInput
  /\ src_scan = << >>
  /\ dst_scan = << >>
  /\ diff = EmptyDiff
  /\ tmpDir = TRUE
  /\ tmpFiles = {}
  /\ journalExists = TRUE
  /\ journal = << >>
  /\ FreshRun
  /\ disk0 = EmptyDisk
  /\ pid = 1
  /\ result = "none"
  /\ crashed = FALSE
  /\ faults = 0

JournalFrame ==
  UNCHANGED <<pc, diffVars, diskVars, runVars, srcTree, dst0, delete_removed, cli, input, pid, crashed,
              stuckFiles, disk0, writer, wfs, whist, sc, hf, result, pre>>

\* record_pending / record_committed: self.file.lock().unwrap()
JournalLock(w) ==
  /\ jw.callers[w].st = "idle"
  /\ jw.callers[w].call <= JournalCalls
  /\ lock_free(jw.lock)
  /\ jw' = [jw EXCEPT !.lock = w, !.callers[w].st = "locked", !.callers[w].k = 0]
  /\ UNCHANGED faults
  /\ JournalFrame

\* one write of writeln!(file, ...) into the BufWriter
JournalWritePiece(w) ==
  /\ jw.callers[w].st = "locked"
  /\ LET k == jw.callers[w].k + 1
     IN  jw' = [jw EXCEPT !.buffer = Append(@, Piece(w, jw.callers[w].call, k)),
                          !.callers[w].k = k,
                          !.callers[w].st = IF k = RecordPieces THEN "written" ELSE "locked"]
  /\ UNCHANGED faults
  /\ JournalFrame

\* file.flush(): the buffer goes to the journal file; when the write fails
\* part of the buffer may have been written, the rest stays in the buffer
JournalFlush(w) ==
  /\ jw.callers[w].st = "written"
  /\ \/ /\ jw' = [jw EXCEPT !.file = @ \o jw.buffer, !.buffer = << >>,
                           !.callers[w].st = "flushed"]
        /\ UNCHANGED faults
     \/ /\ CanFail
        /\ faults' = faults + 1
        /\ \E n \in 0..(Len(jw.buffer) - 1) :
             jw' = [jw EXCEPT !.file = @ \o SubSeq(jw.buffer, 1, n),
                              !.buffer = SubSeq(jw.buffer, n + 1, Len(jw.buffer)),
                              !.callers[w].st = "flush_failed"]
  /\ JournalFrame

\* the call returns Ok or the flush error; the MutexGuard is dropped
JournalReturn(w) ==
  /\ jw.callers[w].st \in {"flushed", "flush_failed"}
  /\ LET c == jw.callers[w]
     IN  jw' = [jw EXCEPT !.lock = 0,
                          !.callers[w] =
                             [st |-> "idle", call |-> c.call + 1, k |-> 0,
                              ok |-> IF c.st = "flushed" THEN c.ok \cup {c.call} ELSE c.ok,
                              err |-> IF c.st = "flushed" THEN c.err
                                      ELSE c.err \cup {c.call}]]
  /\ UNCHANGED faults
  /\ JournalFrame

NextJournal ==
  \E w \in 1..JournalWriters :
    \/ JournalLock(w)
    \/ JournalWritePiece(w)
    \/ JournalFlush(w)
    \/ JournalReturn(w)

SpecJournal == InitJournal /\ [][NextJournal]_vars

----------------------------------------------------------------------------
(* SpecScan: one call of scan_directory_with_excludes on a tree, with       *)
(* exclude patterns, walker errors and per-file failures.                   *)

MaxPatterns == 1       \* exclude patterns given to the scan

\* An exclude pattern is the path it matches, or 0 when it is not a valid glob
PatternSeqs == UNION {[1..n -> 0..NPaths] : n \in 0..MaxPatterns}

\* the program state outside the operation under study
IdleProgram ==
  /\ dstTree = [p \in Paths |-> 0]
  /\ dst0 = dstTree
  /\ pre = dstTree
  /\ delete_removed = FALSE
  /\ cli = NoCli
  /\ input = NoInput
  /\ src_scan = << >>
  /\ dst_scan = << >>
  /\ diff = EmptyDiff
  /\ CleanDisk
  /\ FreshRun
  /\ disk0 = EmptyDisk
  /\ stuckFiles = {}
  /\ pid = 1
  /\ result = "none"
  /\ crashed = FALSE
  /\ faults = 0
  /\ jw = NoJournalWriter
  /\ writer = [st |-> "none", verify |-> FALSE, buffer |-> << >>, hasher |-> NoHasher,
               committed |-> FALSE]
  /\ wfs = [temp |-> NoFile, final |-> NoFile]
  /\ whist = [final0 |-> NoFile, slices |-> << >>, expected |-> NoHash, result |-> "none"]

IdleFrame ==
  UNCHANGED <<diffVars, diskVars, runVars, srcTree, dst0, delete_removed, cli, input, pid, crashed,
              stuckFiles, disk0, writer, wfs, whist, jw, result, pre, faults>>

\* override_builder.add(&format!("!{}", pattern)) fails on a pattern that is
\* not a valid glob
invalid_pattern(patterns) == \E i \in 1..Len(patterns) : patterns[i] = 0

\* the files the walker is to yield: the regular files under root that no
\* exclude pattern matches
Enumerable(tree, patterns) ==
  {p \in FilesOf(tree) : \A i \in 1..Len(patterns) : patterns[i] # p}

\* Mutant of collect_results: the first failure ends the collection
RECURSIVE collect_results_stops(_)
collect_results_stops(metas) ==
  IF metas = << >> THEN [files |-> << >>, error_count |-> 0]
  ELSE IF Head(metas).ok
       THEN LET r == collect_results_stops(Tail(metas))
            IN  [files |-> <<Head(metas).meta>> \o r.files, error_count |-> r.error_count]
       ELSE [files |-> << >>, error_count |-> 1]

\* for result in file_metas: Ok(meta) is pushed to successful_files, Err is
\* counted and logged
RECURSIVE collect_results(_)
collect_results(metas) ==
  IF metas = << >> THEN [files |-> << >>, error_count |-> 0]
  ELSE LET r == collect_results(Tail(metas))
       IN  IF Head(metas).ok
           THEN [files |-> <<Head(metas).meta>> \o r.files, error_count |-> r.error_count]
           ELSE [files |-> r.files, error_count |-> r.error_count + 1]

\* Mutant of scan_result: a scan with failed files fails
scan_result_strict(error_count) == IF error_count > 0 THEN "Io" ELSE "ok"

\* after the warnings the scan returns Ok(ScanResult {..})
scan_result(error_count) == "ok"

InitScan ==
  /\ pc = "scan_input"
  /\ srcTree \in Trees
  /\ \E re \in BOOLEAN, pats \in PatternSeqs :
       /\ ~re => FilesOf(srcTree) = {}
       /\ sc = [NoScan EXCEPT !.root_exists = re, !.patterns = pats]
  /\ hf = NoHashFile
  /\ IdleProgram

\* if !root.exists() return Err(InvalidPath); the override builder: an
\* invalid exclude pattern returns Err(InvalidPath)
ScanCheck ==
  /\ pc = "scan_input"
  /\ IF ~sc.root_exists \/ invalid_pattern(sc.patterns)
     THEN /\ sc' = [sc EXCEPT !.result = "InvalidPath"]
          /\ pc' = "scan_returned"
     ELSE /\ pc' = "scan_walk"
          /\ UNCHANGED sc
  /\ UNCHANGED hf
  /\ IdleFrame

\* a walker thread reaches an entry: a regular file is pushed to files, an
\* entry the walker reports as an error is skipped
ScanVisit ==
  /\ pc = "scan_walk"
  /\ \E p \in Enumerable(srcTree, sc.patterns) \ sc.visited :
       \/ sc' = [sc EXCEPT !.visited = @ \cup {p}, !.file_paths = Append(@, p)]
       \/ sc' = [sc EXCEPT !.visited = @ \cup {p}]
  /\ UNCHANGED <<pc, hf>>
  /\ IdleFrame

\* walker.run returns; file_paths.par_iter().map(..) begins
ScanWalked ==
  /\ pc = "scan_walk"
  /\ sc.visited = Enumerable(srcTree, sc.patterns)
  /\ sc' = [sc EXCEPT !.file_metas =
                        [i \in 1..Len(sc.file_paths) |->
                           [done |-> FALSE, ok |-> FALSE,
                            meta |-> [path |-> sc.file_paths[i], hash |-> 0]]]]
  /\ pc' = "scan_hash"
  /\ UNCHANGED hf
  /\ IdleFrame

\* the closure of the parallel map on one path: fs::metadata, hash_file,
\* strip_prefix; each may fail
ScanProcess ==
  /\ pc = "scan_hash"
  /\ \E i \in 1..Len(sc.file_metas) :
       /\ ~sc.file_metas[i].done
       /\ \/ sc' = [sc EXCEPT !.file_metas[i] =
                                [done |-> TRUE, ok |-> TRUE,
                                 meta |-> [path |-> sc.file_paths[i],
                                           hash |-> srcTree[sc.file_paths[i]]]]]
          \/ sc' = [sc EXCEPT !.file_metas[i].done = TRUE]
  /\ UNCHANGED <<pc, hf>>
  /\ IdleFrame

\* collect() has all results; the loop over them, the warnings, Ok(..)
ScanCollect ==
  /\ pc = "scan_hash"
  /\ \A i \in 1..Len(sc.file_metas) : sc.file_metas[i].done
  /\ LET r == collect_results(sc.file_metas)
     IN  sc' = [sc EXCEPT !.files = r.files, !.error_count = r.error_count,
                          !.result = scan_result(r.error_count)]
  /\ pc' = "scan_returned"
  /\ UNCHANGED hf
  /\ IdleFrame

NextScan ==
  \/ ScanCheck
  \/ ScanVisit
  \/ ScanWalked
  \/ ScanProcess
  \/ ScanCollect

SpecScan == InitScan /\ [][NextScan]_vars

----------------------------------------------------------------------------
(* SpecHashFile: one call of hash_file on a file, read through a buffer of  *)
(* HashBufferSize bytes, with short reads and I/O failures.                 *)

HashBufferSize == 2    \* HASH_BUFFER_SIZE, scaled
MaxFileLen == 5        \* length of the file: below, at and above multiples of the buffer

FileContents == UNION {[1..n -> Bytes] : n \in 0..MaxFileLen}

\* Mutant of read_slice: the whole buffer is hashed, not the bytes read
read_slice_whole(buffer, n) == buffer

\* &buffer[..bytes_read]
read_slice(buffer, n) == SubSeq(buffer, 1, n)

\* reader.read(&mut buffer) returning n bytes: they overwrite the start of
\* the buffer, the rest of it keeps what it held
read_into(buffer, bytes) ==
  [i \in 1..Len(buffer) |-> IF i <= Len(bytes) THEN bytes[i] ELSE buffer[i]]

InitHashFile ==
  /\ pc = "h_input"
  /\ \E c \in FileContents : hf = [NoHashFile EXCEPT !.contents = c]
  /\ sc = NoScan
  /\ srcTree = [p \in Paths |-> 0]
  /\ IdleProgram

HashFrame ==
  UNCHANGED <<diffVars, diskVars, runVars, srcTree, dst0, delete_removed, cli, input, pid, crashed,
              stuckFiles, disk0, writer, wfs, whist, jw, sc, result, pre>>

\* hash_file: Hasher::new; Hasher::hash_file: File::open(path)?, the reader,
\* vec![0u8; HASH_BUFFER_SIZE]
HashOpen ==
  /\ pc = "h_input"
  /\ \/ /\ hf' = [hf EXCEPT !.hasher = hasher_new, !.pos = 0,
                           !.buffer = [i \in 1..HashBufferSize |-> 0]]
        /\ pc' = "h_open"
        /\ UNCHANGED faults
     \/ /\ CanFail
        /\ faults' = faults + 1
        /\ hf' = [hf EXCEPT !.failed = TRUE, !.result = "err"]
        /\ pc' = "h_returned"
  /\ HashFrame

\* one turn of the loop: reader.read(&mut buffer)? returns between 1 and
\* HASH_BUFFER_SIZE of the remaining bytes, which are given to update; or it
\* fails and the error is returned
HashRead ==
  /\ pc = "h_open"
  /\ hf.pos < Len(hf.contents)
  /\ \/ \E n \in 1..Min2(HashBufferSize, Len(hf.contents) - hf.pos) :
          LET buffer == read_into(hf.buffer, SubSeq(hf.contents, hf.pos + 1, hf.pos + n))
          IN  /\ hf' = [hf EXCEPT !.buffer = buffer, !.pos = @ + n,
                                  !.hasher = hasher_update(@, read_slice(buffer, n))]
              /\ UNCHANGED <<pc, faults>>
     \/ /\ CanFail
        /\ faults' = faults + 1
        /\ hf' = [hf EXCEPT !.failed = TRUE, !.result = "err"]
        /\ pc' = "h_returned"
  /\ HashFrame

\* the read at the end of the file returns 0: break, Ok(()), and hash_file
\* returns Ok(hasher.finalize()); or that read fails
HashEof ==
  /\ pc = "h_open"
  /\ hf.pos = Len(hf.contents)
  /\ \/ /\ hf' = [hf EXCEPT !.result = "ok", !.hash = hasher_finalize(hf.hasher)]
        /\ UNCHANGED faults
     \/ /\ CanFail
        /\ faults' = faults + 1
        /\ hf' = [hf EXCEPT !.failed = TRUE, !.result = "err"]
  /\ pc' = "h_returned"
  /\ HashFrame

NextHashFile ==
  \/ HashOpen
  \/ HashRead
  \/ HashEof

SpecHashFile == InitHashFile /\ [][NextHashFile]_vars

----------------------------------------------------------------------------
(* Properties of diff_scans                                                *)

\* the diff of the current scans has been computed
DiffComputed ==
  pc \notin {"input", "start", "rec_input", "rec_done", "w_input", "w_open", "w_done",
            "j_run", "scan_input", "scan_walk", "scan_hash", "scan_returned",
            "h_input", "h_open", "h_returned"}

SeqCount(seq, x) == Cardinality({k \in 1..Len(seq) : seq[k] = x})
RenamedOld(d) == {k \in 1..Len(diff.renamed) : diff.renamed[k][1] = d}
RenamedNew(s) == {k \in 1..Len(diff.renamed) : diff.renamed[k][2] = s}
SameInScan(scan, f) == \E k \in 1..Len(scan) : scan[k] = f
ModifiedPaths == PathsOf(diff.modified)

\* number of the TRUE values among four
TrueCount(a, b, c, d) ==
  (IF a THEN 1 ELSE 0) + (IF b THEN 1 ELSE 0) + (IF c THEN 1 ELSE 0) + (IF d THEN 1 ELSE 0)

\* C4: rename soundness -- every (old, new) of diff.renamed has equal hashes
\* and different paths, new.path is the path of no destination file and
\* old.path is the path of no source file.
C4_RenameSoundness ==
  DiffComputed =>
    \A k \in 1..Len(diff.renamed) :
      LET old == diff.renamed[k][1]
          new == diff.renamed[k][2]
      IN  /\ old.hash = new.hash
          /\ old.path # new.path
          /\ new.path \notin PathsOf(dst_scan)
          /\ old.path \notin PathsOf(src_scan)

\* C5: diff totality, source side -- every source file is in exactly one of
\* unchanged (same path and hash in the destination, emitted nowhere), added,
\* modified, new side of exactly one renamed pair; and it is emitted at most
\* once.
C5_SourceTotality ==
  DiffComputed =>
    \A i \in 1..Len(src_scan) :
      LET s == src_scan[i]
          nA == SeqCount(diff.added, s)
          nM == SeqCount(diff.modified, s)
          nR == Cardinality(RenamedNew(s))
      IN  /\ TrueCount(SameInScan(dst_scan, s), nA > 0, nM > 0, nR > 0) = 1
          /\ nA + nM + nR <= 1

\* C5 witness: a diff in which one source file is renamed, another added
C5_Witness ==
  /\ DiffComputed
  /\ Len(diff.renamed) = 1
  /\ Len(diff.added) = 1
  /\ Len(src_scan) = 2

\* C6: diff totality, destination side -- every destination file is in
\* exactly one of unchanged (same path and hash in the source), removed,
\* modified (its path is in modified), old side of a renamed pair.
C6_DestTotality ==
  DiffComputed =>
    \A j \in 1..Len(dst_scan) :
      LET d == dst_scan[j]
      IN  TrueCount(SameInScan(src_scan, d),
                    SeqCount(diff.removed, d) > 0,
                    d.path \in ModifiedPaths,
                    RenamedOld(d) # {}) = 1

\* number of the files of a scan with the given hash
HashCount(scan, h) == Cardinality({k \in 1..Len(scan) : scan[k].hash = h})

\* C17: rename detection -- when the source has a file at p, the destination
\* a file of the same hash at q # p, p is no destination path, q no source
\* path and no other file of either scan has that hash, the diff has the
\* pair (q, p) in renamed, exactly once and as the only pair with p or q, and
\* lists neither p as added nor q as removed.
C17_RenameDetection ==
  DiffComputed =>
    \A i \in 1..Len(src_scan), j \in 1..Len(dst_scan) :
      LET sf == src_scan[i]
          df == dst_scan[j]
      IN  (/\ sf.hash = df.hash
           /\ sf.path # df.path
           /\ sf.path \notin PathsOf(dst_scan)
           /\ df.path \notin PathsOf(src_scan)
           /\ HashCount(src_scan, sf.hash) = 1
           /\ HashCount(dst_scan, sf.hash) = 1) =>
            /\ SeqCount(diff.renamed, <<df, sf>>) = 1
            /\ Cardinality(RenamedNew(sf)) = 1
            /\ Cardinality(RenamedOld(df)) = 1
            /\ SeqCount(diff.added, sf) = 0
            /\ SeqCount(diff.removed, df) = 0

\* the orders in which the files of a scan (unique paths) can be listed
FileOrders(scan) ==
  {t \in [1..Len(scan) -> {scan[k] : k \in 1..Len(scan)}] :
     \A k \in 1..Len(scan) : \E h \in 1..Len(scan) : t[h] = scan[k]}

SetOf(seq) == {seq[k] : k \in 1..Len(seq)}

\* two diffs with the same four collections, compared as sets
SameDiff(d1, d2) ==
  /\ SetOf(d1.added) = SetOf(d2.added)
  /\ SetOf(d1.modified) = SetOf(d2.modified)
  /\ SetOf(d1.renamed) = SetOf(d2.renamed)
  /\ SetOf(d1.removed) = SetOf(d2.removed)

\* C18: diff_scans does not depend on file order -- for every permutation of
\* source.files and of dest.files the four collections of the result,
\* compared as sets, are the same.
C18_OrderIndependence ==
  DiffComputed =>
    \A ss \in FileOrders(src_scan), ds \in FileOrders(dst_scan) :
      SameDiff(diff_scans(ss, ds), diff)

\* the paths on either side of the renamed pairs
RenamedPaths ==
  {diff.renamed[k][1].path : k \in 1..Len(diff.renamed)}
    \cup {diff.renamed[k][2].path : k \in 1..Len(diff.renamed)}

\* C19: for a path present in both scans the diff holds nothing when the
\* hashes are equal and only the source-side FileMeta, in modified, when they
\* differ: the path is in neither added nor removed nor a renamed pair.
C19_SamePath ==
  DiffComputed =>
    \A i \in 1..Len(src_scan), j \in 1..Len(dst_scan) :
      LET sf == src_scan[i]
          df == dst_scan[j]
      IN  sf.path = df.path =>
            /\ sf.path \notin PathsOf(diff.added)
            /\ sf.path \notin PathsOf(diff.removed)
            /\ sf.path \notin RenamedPaths
            /\ IF sf.hash = df.hash
               THEN sf.path \notin PathsOf(diff.modified)
               ELSE /\ SeqCount(diff.modified, sf) = 1
                    /\ SeqCount(diff.modified, df) = 0

----------------------------------------------------------------------------
(* Properties of sync_changes and of the tool run                          *)

\* sync_changes is running or has returned
InSyncChanges ==
  pc \in {"recovered", "mkjournal", "copy", "rename", "delete", "fsync", "rmtmp", "returned"}

\* destination paths the diff writes
WritePaths(d) == PathsOf(d.added) \cup PathsOf(d.modified)
                   \cup {d.renamed[k][2].path : k \in 1..Len(d.renamed)}
OldPaths(d) == {d.renamed[k][1].path : k \in 1..Len(d.renamed)}

\* The destination an uninterrupted, failure-free sync_changes(S, D, d, del)
\* produces: the copy phase, then the rename phase, then the deletes.
ApplyDiff(S, D, d, del) ==
  LET copied == PathsOf(d.added) \cup PathsOf(d.modified)
      news == {d.renamed[k][2].path : k \in 1..Len(d.renamed)}
  IN  [p \in Paths |->
         IF del /\ p \in PathsOf(d.removed) THEN 0
         ELSE IF p \in OldPaths(d) THEN 0
         ELSE IF p \in news \cup copied THEN S[p]
         ELSE D[p]]

\* what single uninterrupted syncs of S into D can produce, over every order
\* in which the two scans may list their files
UninterruptedOutcomes(S, D, del) ==
  {ApplyDiff(S, D, diff_scans(ss, ds), del) : ss \in ScansOfTree(S), ds \in ScansOfTree(D)}

\* C1: atomic replacement -- at every point of sync_changes (hence at every
\* point where it can be interrupted) every destination path the diff writes
\* holds its pre-apply state (old content, or absent) or the complete content
\* of the source file.  (Partial content is held by the files of tmpFiles
\* only.)
C1_AtomicReplacement ==
  InSyncChanges =>
    \A p \in WritePaths(diff) : dstTree[p] \in {pre[p], srcTree[p]}

\* C2: crash idempotence -- when the first sync_changes was interrupted and a
\* fresh run (recover, re-scan, re-diff, sync_changes) completes, the
\* destination equals what a single uninterrupted sync would have produced
\* from the original destination, and no file is left in .jan-tmp.
C2_CrashIdempotence ==
  (crashed /\ pc = "returned" /\ result = "ok") =>
    /\ dstTree \in UninterruptedOutcomes(srcTree, dst0, delete_removed)
    /\ tmpFiles = {}

\* C3: no-op stability -- after a successful sync_changes, diff_scans of fresh
\* scans of source and destination, in any file order, has empty added,
\* modified and renamed (and empty removed when delete_removed was set);
\* nobody else changed the destination between its scan and the apply.
C3_NoOpStability ==
  (pc = "returned" /\ result = "ok" /\ AsScanned(pre)) =>
    \A ss \in ScansOfTree(srcTree), ds \in ScansOfTree(dstTree) :
      LET d2 == diff_scans(ss, ds)
      IN  /\ d2.added = << >>
          /\ d2.modified = << >>
          /\ d2.renamed = << >>
          /\ (delete_removed => d2.removed = << >>)

\* C7: whenever sync_changes returns, with success or with an error of the
\* preamble after recovery or of any phase, neither .jan-journal nor .jan-tmp
\* exists.
C7_NoLeftoversOnReturn ==
  (pc = "returned" /\ result # "err_recover") => (~journalExists /\ ~tmpDir)

\* C8: when a worker of the copy (or rename) phase fails, sync_changes returns
\* the error after every worker of that phase has joined, no later phase has
\* run, and every destination file already committed is in place with its new
\* content.
C8_PhaseFailure ==
  (pc = "returned" /\ result \in {"err_copy", "err_rename"}) =>
    /\ \A i \in 1..Len(workers) : workers[i].st \in {"todo", "done", "failed"}
    /\ \A k \in 1..Len(diff.removed) :
         dstTree[diff.removed[k].path] = pre[diff.removed[k].path]
    /\ result = "err_copy" =>
         /\ \A k \in 1..Len(diff.renamed) :
              /\ dstTree[diff.renamed[k][2].path] = pre[diff.renamed[k][2].path]
              /\ dstTree[diff.renamed[k][1].path] # 0
         /\ \A i \in 1..Len(workers) :
              workers[i].committed =>
                dstTree[files_to_copy(diff)[i].path] = srcTree[files_to_copy(diff)[i].path]
    /\ result = "err_rename" =>
         /\ \A p \in PathsOf(files_to_copy(diff)) : dstTree[p] = srcTree[p]
         /\ \A i \in 1..Len(workers) :
              workers[i].committed =>
                dstTree[diff.renamed[i][2].path] = srcTree[diff.renamed[i][2].path]

\* C9: after an interrupted apply, the next run of the tool that ends
\* successfully has removed every leftover .jan-journal and every leftover
\* file of .jan-tmp.
C9_NextRunCleans ==
  (crashed /\ pc \in {"exit", "returned"} /\ result = "ok") =>
    (~journalExists /\ tmpFiles = {})

\* atomic_copy_file_with_metadata of worker i has returned an error / Ok
CopyReturnedErr(i) == workers[i].st = "failed" /\ workers[i].at \in {"pending", "writing"}
CopyReturnedOk(i) ==
  \/ workers[i].st \in {"copied", "removed", "done"}
  \/ workers[i].st = "failed" /\ workers[i].at \in {"copied", "removed"}

\* the journal holds the C record of worker i
HasCRecord(i) ==
  \E k \in 1..Len(journal) :
    journal[k] = JLine("C", IF pc = "copy" THEN "COPY" ELSE "RENAME",
                       TmpLoc(workers[i].tmp), ItemNew(i).path)

\* C15: per file of the copy and rename phases, all or nothing -- when
\* atomic_copy_file_with_metadata returned an error the destination path is
\* in its pre-apply state; when it returned Ok the destination holds the
\* complete source content and, once the phase has joined, the journal holds
\* the file's C record.
C15_PerFileAllOrNothing ==
  pc \in {"copy", "rename"} =>
    \A i \in 1..Len(workers) :
      /\ CopyReturnedErr(i) => dstTree[ItemNew(i).path] = pre[ItemNew(i).path]
      /\ CopyReturnedOk(i) =>
           /\ dstTree[ItemNew(i).path] = srcTree[ItemNew(i).path]
           /\ PhaseJoined => HasCRecord(i)

\* C16: with delete_removed = false sync_changes leaves every file of
\* diff.removed at the destination as it was; with delete_removed = true no
\* path of diff.removed exists at the destination after a successful sync;
\* and the delete loop returns an error only when a removal failed, not
\* because a removed file was already missing.
C16_DeleteRemoved ==
  /\ (InSyncChanges /\ ~delete_removed) =>
       \A k \in 1..Len(diff.removed) :
         dstTree[diff.removed[k].path] = pre[diff.removed[k].path]
  /\ (pc = "returned" /\ result = "ok" /\ delete_removed) =>
       \A k \in 1..Len(diff.removed) : dstTree[diff.removed[k].path] = 0
  /\ (pc = "returned" /\ result = "err_delete") => (delete_removed /\ faults > 0)

\* C16 witness: a sync with delete_removed succeeded although a file of
\* diff.removed was already missing when it began, and another was deleted
C16_Witness ==
  /\ pc = "returned"
  /\ result = "ok"
  /\ delete_removed
  /\ \E k \in 1..Len(diff.removed) : pre[diff.removed[k].path] = 0
  /\ \E k \in 1..Len(diff.removed) : pre[diff.removed[k].path] # 0
  /\ \A k \in 1..Len(diff.removed) : dstTree[diff.removed[k].path] = 0

\* the order of the phases of sync_changes
PhaseRank(p) ==
  CASE p = "copy" -> 1
    [] p = "rename" -> 2
    [] p = "delete" -> 3
    [] p = "fsync" -> 4
    [] p = "rmtmp" -> 5
    [] p = "returned" -> 6
    [] OTHER -> 0

AllWorkersDone == \A i \in 1..Len(workers) : workers[i].st = "done"

\* what C20 says of one step of a run of sync_changes
PhaseOrderStep ==
  pid' = pid =>
    /\ PhaseRank(pc') >= PhaseRank(pc)
    /\ (pc = "copy" /\ pc' = "rename") => AllWorkersDone
    /\ (pc = "rename" /\ pc' \in {"delete", "fsync"}) => AllWorkersDone
    /\ Len(journal') > Len(journal) =>
         \/ pc = "copy" /\ journal'[Len(journal')].op = "COPY"
         \/ pc = "rename" /\ journal'[Len(journal')].op = "RENAME"
    /\ delIdx' # delIdx => pc = "delete"
    /\ fsynced' # fsynced =>
         /\ pc = "fsync"
         /\ delete_removed => delIdx = Len(diff.removed) + 1
    /\ (journalExists /\ ~journalExists' /\ pc # "diffed") =>
         \/ phaseErr
         \/ pc = "fsync" /\ fsynced = written_dirs

\* C20: across the phases of sync_changes every copy-phase operation has
\* finished before a rename-phase operation starts, every rename-phase
\* operation before a delete, every delete before the directory fsyncs, and
\* the journal is removed only after the directory fsyncs (or, by the error
\* path of a failed phase, when the later phases do not run at all).
C20_PhaseOrder == [][PhaseOrderStep]_vars

\* C20 witness: a run with copies, a rename and a delete has fsynced its
\* directories and removed the journal
C20_Witness ==
  /\ pc = "rmtmp"
  /\ files_to_copy(diff) # << >>
  /\ diff.renamed # << >>
  /\ delete_removed
  /\ diff.removed # << >>
  /\ fsynced # {}
  /\ ~journalExists

----------------------------------------------------------------------------
(* Properties of SyncJournal::recover                                      *)

RecoverReturnedOk == pc = "rec_done" /\ result = "ok"

\* C10: whenever recover returns Ok -- whatever the journal held (absent,
\* empty, pending only, pending and committed, malformed or unreadable
\* lines) and whatever files temp_dir held -- the journal file no longer
\* exists and no regular file remains directly inside temp_dir.
C10_RecoverLeavesNothing ==
  RecoverReturnedOk => (~journalExists /\ tmpFiles = {})

\* indices of the records of kind k that recover reads from journal j (the
\* lines before the first one whose read fails)
RecordsRead(j, k) ==
  {i \in 1..Len(j) : j[i].kind = k /\ \A h \in 1..i : j[h].kind # "unreadable"}

\* a pending record of j names location loc and no committed record of j has
\* its (op, temp, final)
PendingUncommitted(j, loc) ==
  \E i \in RecordsRead(j, "P") :
    /\ j[i].temp = loc
    /\ \A c \in RecordsRead(j, "C") :
         ~(j[c].op = j[i].op /\ j[c].temp = j[i].temp /\ j[c].final = j[i].final)

\* C11: apart from the sweep of temp_dir, recover removes the temp path named
\* by a pending record if and only if no committed record of the journal has
\* the identical (op, temp, final); seen on a path outside temp_dir (which the
\* sweep never touches) whose removal the file system does not refuse: after
\* a recover that returned Ok the file is gone exactly when a pending record
\* without matching committed record named it, and without a journal nothing
\* outside temp_dir is removed.
C11_RemovesUncommittedOnly ==
  (RecoverReturnedOk /\ DstLoc(1) \notin stuckFiles) =>
    /\ \A p \in Paths : p # 1 => dstTree[p] = disk0.dtree[p]
    /\ IF disk0.jex /\ PendingUncommitted(disk0.journal, DstLoc(1))
       THEN dstTree[1] = 0
       ELSE dstTree[1] = disk0.dtree[1]

\* C11 witness: a pending record names an existing file outside temp_dir, a
\* committed record has the same triple, and the file is still there after
\* recover returned Ok
C11_Witness ==
  /\ RecoverReturnedOk
  /\ disk0.jex
  /\ disk0.dtree[1] # 0
  /\ \E i \in RecordsRead(disk0.journal, "P") : disk0.journal[i].temp = DstLoc(1)
  /\ ~PendingUncommitted(disk0.journal, DstLoc(1))
  /\ dstTree[1] = disk0.dtree[1]

----------------------------------------------------------------------------
(* Properties of AtomicWriter                                              *)

CommitReturned == pc = "w_done" /\ whist.result \in {"ok", "err_io", "InvalidData"}

\* C12: commit on a writer with verification enabled and an expected hash
\* different from the hash of the bytes written returns an error -- the
\* InvalidData one unless flush or sync_all failed first --, final_path keeps
\* its previous state, and the temp file is gone once the writer is dropped
\* (if its removal is not refused).
C12_VerifyMismatch ==
  (/\ CommitReturned
   /\ writer.verify
   /\ whist.expected # NoHash
   /\ whist.expected # hash_bytes(Concat(whist.slices))) =>
    /\ whist.result \in {"InvalidData", "err_io"}
    /\ faults = 0 => whist.result = "InvalidData"
    /\ wfs.final = whist.final0
    /\ WriterTemp \notin stuckFiles => ~wfs.temp.exists

\* C12 witness: a mismatching commit over an existing final_path returned
\* InvalidData after two writes
C12_Witness ==
  /\ CommitReturned
  /\ whist.result = "InvalidData"
  /\ whist.final0.exists
  /\ Len(whist.slices) = 2
  /\ wfs.final = whist.final0

\* C13: a writer dropped without a successful commit (never committed, or
\* commit failed) has its temp file deleted (if the removal is not refused)
\* and final_path untouched; the drop after a successful commit deletes
\* nothing: final_path holds the committed file.
C13_DropCleanup ==
  /\ (pc = "w_done" /\ whist.result \in {"dropped", "err_io", "InvalidData"}) =>
       /\ wfs.final = whist.final0
       /\ WriterTemp \notin stuckFiles => ~wfs.temp.exists
  /\ (pc = "w_done" /\ whist.result = "ok") => wfs.final.exists

\* C13 witness: a writer with bytes written was dropped without commit and
\* its temp file removed
C13_Witness ==
  /\ pc = "w_done"
  /\ whist.result = "dropped"
  /\ Concat(whist.slices) # << >>
  /\ WriterTemp \notin stuckFiles
  /\ ~wfs.temp.exists

\* C14: after a successful commit final_path holds exactly the concatenation,
\* in call order, of the slices passed to write (the empty file when write
\* was never called) and temp_path no longer exists.
C14_CommitContent ==
  (pc = "w_done" /\ whist.result = "ok") =>
    /\ wfs.final = FileOf(Concat(whist.slices))
    /\ ~wfs.temp.exists

\* C14 witness: a successful commit after two writes, the second of which
\* did not fit the buffer
C14_Witness ==
  /\ pc = "w_done"
  /\ whist.result = "ok"
  /\ Len(whist.slices) = 2
  /\ Len(whist.slices[1]) = 1
  /\ Len(whist.slices[2]) = 2
  /\ wfs.final.exists

----------------------------------------------------------------------------
(* Properties of the journal under concurrent callers                      *)

\* seq consists of whole records, each the pieces 1..RecordPieces of one
\* call in order, the last one possibly still incomplete
RECURSIVE WholeRecords(_)
WholeRecords(seq) ==
  IF seq = << >> THEN TRUE
  ELSE LET n == Min2(RecordPieces, Len(seq))
       IN  /\ \A k \in 1..n : seq[k] = Piece(seq[1][1], seq[1][2], k)
           /\ WholeRecords(SubSeq(seq, n + 1, Len(seq)))

\* the journal file holds the complete record of call c of caller w
RecordInFile(w, c) ==
  \E i \in 1..Len(jw.file) :
    /\ i + RecordPieces - 1 <= Len(jw.file)
    /\ \A k \in 1..RecordPieces : jw.file[i + k - 1] = Piece(w, c, k)

\* C21: with concurrent callers of record_pending / record_committed the
\* journal is a sequence of whole records -- what has been written (file and
\* buffer) never has the pieces of one record mixed with another's, and the
\* file holds only whole records as long as no flush failed -- and the record
\* of every call that returned Ok is in the file when the call returns.
C21_WholeRecords ==
  pc = "j_run" =>
    /\ WholeRecords(jw.file \o jw.buffer)
    /\ faults = 0 => Len(jw.file) % RecordPieces = 0
    /\ \A w \in 1..JournalWriters : \A c \in jw.callers[w].ok : RecordInFile(w, c)

\* C21 witness: all calls of two callers have returned Ok, and the file
\* begins with records of different callers
C21_Witness ==
  /\ pc = "j_run"
  /\ \A w \in 1..JournalWriters : jw.callers[w].ok = 1..JournalCalls
  /\ Len(jw.file) = JournalWriters * JournalCalls * RecordPieces
  /\ jw.file[1][1] # jw.file[RecordPieces + 1][1]

----------------------------------------------------------------------------
(* Properties of generate_temp_path                                         *)

\* temp paths returned to the workers of the running phase
WorkerTemps == {i \in DOMAIN workers : workers[i].tmp # NoTemp}

\* C22: any two calls of generate_temp_path in one process, concurrent ones
\* included, return different paths: the workers of a phase hold pairwise
\* different temp paths, and the P records the process has written name
\* pairwise different temp paths.
C22_DistinctTempPaths ==
  pc \in {"copy", "rename"} =>
    /\ \A i, j \in WorkerTemps : i # j => workers[i].tmp # workers[j].tmp
    /\ \A a, b \in DOMAIN journal :
         (a # b /\ journal[a].kind = "P" /\ journal[b].kind = "P")
            => journal[a].temp # journal[b].temp

\* C22 witness: two workers of the copy phase hold temp paths at the same
\* time, neither having finished
C22_Witness ==
  /\ pc = "copy"
  /\ \E i, j \in WorkerTemps : i # j /\ workers[i].st = "pending" /\ workers[j].st = "pending"

----------------------------------------------------------------------------
(* Properties of the start of sync_changes                                  *)

\* a step that leaves sync_changes, or finds it, failed in recover creates
\* neither .jan-tmp nor a journal, leaves a journal that exists as it is,
\* changes no destination file and starts no phase
RecoverFailureStep ==
  result' = "err_recover" =>
    /\ pc' = "returned"
    /\ tmpDir' => tmpDir
    /\ journalExists' => (journalExists /\ journal' = journal)
    /\ dstTree' = dstTree
    /\ workers' = workers
    /\ tempCounter' = tempCounter

\* C23: when SyncJournal::recover fails at the start of sync_changes,
\* sync_changes returns that error without creating .jan-tmp or a new
\* journal and without copying, renaming or deleting a destination file.
C23_RecoverFailure == [][RecoverFailureStep]_vars

\* C23 witness: sync_changes has returned the error of recover on a
\* destination that holds files and a diff that has work to do
C23_Witness ==
  /\ pc = "returned"
  /\ result = "err_recover"
  /\ \E p \in Paths : dstTree[p] # 0
  /\ diff # EmptyDiff

----------------------------------------------------------------------------
(* Properties of the directory fsyncs                                       *)

\* a step in which a directory fsync fails stays in the fsync loop; the loop
\* is left only when every directory of written_dirs has been tried, by
\* removing the journal, and sync_changes then removes the temp directory
\* and returns Ok
FsyncFailureStep ==
  crashed' = crashed =>
    /\ (fsync_warned' # fsync_warned) =>
          /\ pc = "fsync" /\ pc' = "fsync"
          /\ result' = result
          /\ dstTree' = dstTree
    /\ (pc = "fsync" /\ pc' # "fsync") =>
          /\ pc' = "rmtmp"
          /\ fsynced = written_dirs
          /\ ~journalExists'
    /\ (pc = "rmtmp" /\ pc' # "rmtmp") =>
          /\ pc' = "returned"
          /\ result' = "ok"
          /\ ~tmpDir' /\ ~journalExists'
    /\ (pc' = "returned" /\ fsync_warned' # {}) =>
          /\ result' = "ok"
          /\ fsynced' = written_dirs'
          /\ ~tmpDir' /\ ~journalExists'

\* C24: a directory fsync failure does not fail sync_changes: the remaining
\* directories are still fsynced, the journal and the temp directory are
\* still removed, and sync_changes returns Ok.
C24_FsyncFailureIgnored == [][FsyncFailureStep]_vars

\* C24 witness: sync_changes has returned after the fsync of one of several
\* written directories failed
C24_Witness ==
  /\ pc = "returned"
  /\ fsync_warned # {}
  /\ fsync_warned # written_dirs
  /\ Cardinality(written_dirs) >= 2

----------------------------------------------------------------------------
(* Properties of scan_directory_with_excludes                               *)

ScanReturned == pc = "scan_returned"

\* C25 as stated: the scan fails with InvalidPath if and only if root does
\* not exist, and returns Ok on every other input
C25_FailsIffRootMissing ==
  ScanReturned =>
    /\ (sc.result = "InvalidPath") <=> ~sc.root_exists
    /\ sc.root_exists => sc.result = "ok"

\* C25 amended: the scan fails with InvalidPath if and only if root does not
\* exist or one of the exclude patterns is not a valid glob; on every other
\* input, per-file failures included, it returns Ok
C25_FailsIffRootOrPattern ==
  ScanReturned =>
    /\ (sc.result = "InvalidPath") <=> (~sc.root_exists \/ invalid_pattern(sc.patterns))
    /\ (sc.root_exists /\ ~invalid_pattern(sc.patterns)) => sc.result = "ok"

\* C25 witness: a scan with a valid exclude pattern and a failed file has
\* returned Ok
C25_Witness ==
  /\ ScanReturned
  /\ sc.result = "ok"
  /\ sc.patterns # << >>
  /\ sc.error_count > 0
  /\ sc.files # << >>

\* the enumerated files whose processing did not fail
Succeeded == {sc.file_paths[i] : i \in {k \in 1..Len(sc.file_metas) : sc.file_metas[k].ok}}

\* C26: when stat, hashing or relativization fails for some enumerated files
\* the scan still returns Ok, and its files are exactly the FileMetas of the
\* files that did not fail: no failed file, every other file once, with its
\* content hash.
C26_BestEffortScan ==
  (ScanReturned /\ sc.root_exists /\ ~invalid_pattern(sc.patterns)) =>
    /\ sc.result = "ok"
    /\ PathsOf(sc.files) = Succeeded
    /\ UniquePaths(sc.files)
    /\ \A i \in 1..Len(sc.files) : sc.files[i].hash = srcTree[sc.files[i].path]
    /\ sc.error_count = Len(sc.file_paths) - Len(sc.files)

\* C26 witness: of two enumerated files the first failed and the second did
\* not
C26_Witness ==
  /\ ScanReturned
  /\ Len(sc.file_paths) = 2
  /\ ~sc.file_metas[1].ok
  /\ sc.file_metas[2].ok
  /\ Len(sc.files) = 1

----------------------------------------------------------------------------
(* Properties of Hasher                                                     *)

\* C27: Hasher is independent of chunk boundaries: a Hasher updated with the
\* chunks of a byte sequence in order finalizes to hash_bytes of the whole
\* sequence, whatever the split (here: the hasher of an AtomicWriter and the
\* slices written to it).
C27_ChunkIndependence ==
  (pc = "w_open" /\ writer.hasher.some) =>
    hasher_finalize(writer.hasher.state) = hash_bytes(Concat(whist.slices))

\* C27 witness: a hasher has absorbed two non-empty chunks
C27_Witness ==
  /\ pc = "w_open"
  /\ writer.hasher.some
  /\ Len(whist.slices) = 2
  /\ whist.slices[1] # << >>
  /\ whist.slices[2] # << >>

\* C28: for every readable file, the empty file and files of a length below,
\* at or above a multiple of the read buffer size included, hash_file
\* returns hash_bytes of the file's contents; when the open or a read fails,
\* hash_file returns an error and no hash.
C28_FileMemoryEquivalence ==
  pc = "h_returned" =>
    /\ ~hf.failed => (hf.result = "ok" /\ hf.hash = hash_bytes(hf.contents))
    /\ hf.failed => (hf.result = "err" /\ hf.hash = NoHashFile.hash)

\* C28 witness: a file longer than two buffers, of a length that is not a
\* multiple of the buffer size, has been hashed
C28_Witness ==
  /\ pc = "h_returned"
  /\ hf.result = "ok"
  /\ Len(hf.contents) > 2 * HashBufferSize
  /\ Len(hf.contents) % HashBufferSize # 0
  /\ \E i \in 1..Len(hf.contents) : hf.contents[i] # 0

----------------------------------------------------------------------------
(* Properties of the command line tool                                      *)

\* with --dry-run no step enters sync_changes, no step of the tool changes
\* the destination tree, .jan-tmp or .jan-journal, and the run ends with Ok
DryRunStep ==
  cli.dry_run =>
    /\ pc' \in {"start", "diffed", "exit"}
    /\ pc' # pc => dstTree' = dstTree
    /\ UNCHANGED <<tmpDir, tmpFiles, journalExists, journal, workers, tempCounter>>
    /\ pc' = "exit" => result' = "ok"

\* C29: with --dry-run the command line tool never calls sync_changes,
\* whatever the diff: the destination tree, .jan-tmp and .jan-journal
\* included, is left exactly as it was, and the run exits successfully.
C29_DryRun == [][DryRunStep]_vars

\* C29 witness: a dry run whose diff has changes to apply has exited
C29_Witness ==
  /\ pc = "exit"
  /\ cli.dry_run
  /\ ~InSync(diff, delete_removed)
  /\ dstTree = dst0

----------------------------------------------------------------------------
(* Properties of the journal order in the copy and rename phases            *)

\* the journal j holds the record of that kind for the triple
HasRecord(j, kind, op, temp, final) ==
  \E k \in 1..Len(j) : j[k] = JLine(kind, op, temp, final)

PhaseOp == IF pc = "copy" THEN "COPY" ELSE "RENAME"

\* a step of a phase: a temp file appears only when its P record is in the
\* journal; a file is renamed onto its final path only when the P record of
\* its triple is in the journal; a C record is appended only for a triple
\* whose P record is in the journal and whose rename has succeeded (the temp
\* file is gone from .jan-tmp, the worker has committed)
JournalOrderStep ==
  (pc \in {"copy", "rename"} /\ pc' = pc) =>
    /\ \A n \in tmpFiles' \ tmpFiles :
         \E k \in 1..Len(journal) : journal[k].kind = "P" /\ journal[k].temp = TmpLoc(n)
    /\ \A i \in 1..Len(workers) :
         (workers'[i].committed /\ ~workers[i].committed) =>
            HasRecord(journal, "P", PhaseOp, TmpLoc(workers[i].tmp), ItemNew(i).path)
    /\ (Len(journal') = Len(journal) + 1 /\ journal'[Len(journal')].kind = "C") =>
         LET l == journal'[Len(journal')]
         IN  /\ HasRecord(journal, "P", l.op, l.temp, l.final)
             /\ l.op = PhaseOp
             /\ \E i \in 1..Len(workers) :
                  /\ workers[i].committed
                  /\ TmpLoc(workers[i].tmp) = l.temp
                  /\ ItemNew(i).path = l.final
                  /\ workers[i].tmp \notin tmpFiles

\* C30: for each file of the copy and rename phases the P record of
\* (op, temp, final) is in the journal before the temp file is created and
\* before the rename onto the final path, and the C record of the triple is
\* appended only after that rename has succeeded.
C30_JournalOrder == [][JournalOrderStep]_vars

\* C30 witness: the journal holds P and C records of a copy and of a rename
C30_Witness ==
  /\ pc = "rename"
  /\ \E a, b, c, d \in 1..Len(journal) :
       /\ a < b /\ c < d
       /\ journal[a].kind = "P" /\ journal[b].kind = "C"
       /\ journal[a].op = "COPY" /\ Triple(journal[a]) = Triple(journal[b])
       /\ journal[c].kind = "P" /\ journal[d].kind = "C"
       /\ journal[c].op = "RENAME" /\ Triple(journal[c]) = Triple(journal[d])

----------------------------------------------------------------------------
(* Properties of the rename phase                                           *)

\* a step of the rename phase: a destination file disappears only as the old
\* path of a pair whose new path has been renamed into place by its worker;
\* a worker whose old path is already missing goes on as after a removal
RemoveOldStep ==
  (pc = "rename" /\ pc' = "rename") =>
    /\ \A p \in Paths :
         (dstTree[p] # 0 /\ dstTree'[p] = 0) =>
            \E i \in 1..Len(workers) :
              /\ ItemOld(i).path = p
              /\ workers[i].st = "copied" /\ workers[i].committed
              /\ workers'[i].st = "removed"
              /\ workers[i].tmp \notin tmpFiles
    /\ \A i \in 1..Len(workers) :
         (workers[i].st # "removed" /\ workers'[i].st = "removed") =>
            /\ workers[i].committed
            /\ dstTree'[ItemOld(i).path] = 0
    /\ \A i \in 1..Len(workers) :
         (workers[i].st = "copied" /\ workers'[i].st = "failed"
            /\ dstTree[ItemOld(i).path] = 0) => faults' = faults + 1

\* C31: for each rename pair the old destination file is removed only after
\* the atomic rename onto the new path has succeeded; when the copy to the
\* new path fails the old file is not removed; an old file that is already
\* missing is not an error.
C31_RemoveOldAfterCommit == [][RemoveOldStep]_vars

\* C31 witness: a rename worker has passed the removal of an old path that
\* was already missing when sync_changes began
C31_Witness ==
  /\ pc = "rename"
  /\ \E i \in 1..Len(workers) :
       /\ workers[i].st \in {"removed", "done"}
       /\ pre[ItemOld(i).path] = 0

----------------------------------------------------------------------------
(* Properties of the candidate choice of diff_scans                         *)

\* the accumulator of the loop over source.files when it reaches file i
AccBefore(i) == diff_source_loop(EmptyAcc, SubSeq(src_scan, 1, i - 1), dst_scan, 1)

\* the destination files with the hash of source file i that are not yet
\* processed when the loop reaches it
UnprocessedCandidates(i) ==
  {j \in 1..Len(dst_scan) : /\ dst_scan[j].hash = src_scan[i].hash
                            /\ dst_scan[j].path \notin AccBefore(i).processed}

CandidateScore(i, j) == path_similarity(src_scan[i].path, dst_scan[j].path)

\* the candidate of highest score, the first in dest.files among equals
FirstBest(i) ==
  CHOOSE j \in UnprocessedCandidates(i) :
    \A k \in UnprocessedCandidates(i) :
      \/ RatGT(CandidateScore(i, j), CandidateScore(i, k))
      \/ RatEQ(CandidateScore(i, j), CandidateScore(i, k)) /\ j <= k

\* C32: when several unprocessed destination files share the hash of a
\* source file whose path is not in the destination, diff_scans pairs the
\* source file with the candidate of highest path_similarity, the first in
\* dest.files among candidates of equal highest score.
C32_TieBreak ==
  DiffComputed =>
    \A i \in 1..Len(src_scan) :
      (/\ src_scan[i].path \notin PathsOf(dst_scan)
       /\ Cardinality(UnprocessedCandidates(i)) >= 2) =>
         /\ SeqCount(diff.renamed, <<dst_scan[FirstBest(i)], src_scan[i]>>) = 1
         /\ Cardinality(RenamedNew(src_scan[i])) = 1

\* the files of a scan, and the renamed pairs, of hash h
WithHash(scan, h) == {k \in 1..Len(scan) : scan[k].hash = h}
RenamedWithHash(h) == {k \in 1..Len(diff.renamed) : diff.renamed[k][2].hash = h}

\* C33: no destination file is the old side of more than one renamed pair
\* and no source file the new side of more than one; when k source files and
\* m destination files share a hash and none of their paths is a path of the
\* other scan, at most min(k, m) renames of that hash are emitted, every
\* source file of the hash that is not renamed is added and every
\* destination file of the hash that is not renamed is removed.
C33_RenamePairing ==
  DiffComputed =>
    /\ \A j \in 1..Len(dst_scan) : Cardinality(RenamedOld(dst_scan[j])) <= 1
    /\ \A i \in 1..Len(src_scan) : Cardinality(RenamedNew(src_scan[i])) <= 1
    /\ \A h \in Hashes :
         LET S == WithHash(src_scan, h)
             D == WithHash(dst_scan, h)
         IN  (/\ \A i \in S : src_scan[i].path \notin PathsOf(dst_scan)
              /\ \A j \in D : dst_scan[j].path \notin PathsOf(src_scan)) =>
               /\ Cardinality(RenamedWithHash(h)) <= Min2(Cardinality(S), Cardinality(D))
               /\ \A i \in S :
                    SeqCount(diff.added, src_scan[i])
                      = (IF RenamedNew(src_scan[i]) = {} THEN 1 ELSE 0)
               /\ \A j \in D :
                    SeqCount(diff.removed, dst_scan[j])
                      = (IF RenamedOld(dst_scan[j]) = {} THEN 1 ELSE 0)

\* C33 witness: two source files and one destination file share a hash; one
\* rename is emitted and the other source file is added
C33_Witness ==
  /\ DiffComputed
  /\ Len(src_scan) = 2
  /\ src_scan[1].hash = src_scan[2].hash
  /\ Len(dst_scan) = 1
  /\ dst_scan[1].hash = src_scan[1].hash
  /\ dst_scan[1].path \notin PathsOf(src_scan)
  /\ Len(diff.renamed) = 1
  /\ Len(diff.added) = 1
  /\ diff.removed = << >>

----------------------------------------------------------------------------
(* Properties of recover: what it may delete                                *)

\* C34: SyncJournal::recover deletes only the journal file and files inside
\* temp_dir: whatever the journal holds, every file outside temp_dir other
\* than the journal is after recover what it was before.
C34_RecoverDeletesOnlyTemps ==
  pc = "rec_done" => \A p \in Paths : dstTree[p] = disk0.dtree[p]

----------------------------------------------------------------------------
(* Invariants of the journal during an apply                                *)

SyncRunning == pc \in {"recovered", "mkjournal", "copy", "rename", "delete", "fsync", "rmtmp"}

\* the journal holds a P record naming temp file n whose triple has no C record
PendingInJournal(n) ==
  \E a \in 1..Len(journal) :
    /\ journal[a].kind = "P"
    /\ journal[a].temp = TmpLoc(n)
    /\ \A b \in 1..Len(journal) :
         ~(journal[b].kind = "C" /\ Triple(journal[b]) = Triple(journal[a]))

\* C35: while sync_changes is running, every file that exists in .jan-tmp is
\* named by a P record of the journal file that has no matching C record, so
\* that a crash at any point leaves only temp files the journal points at.
C35_TempsArePending ==
  SyncRunning => \A n \in tmpFiles : journalExists /\ PendingInJournal(n)

\* C36: at every point of an apply every C record of the journal is preceded
\* in the file by a P record with the identical (op, temp, final), and no
\* triple is recorded more than once as P or more than once as C.
C36_JournalWellFormed ==
  (SyncRunning /\ journalExists) =>
    /\ \A b \in 1..Len(journal) :
         journal[b].kind = "C" =>
           \E a \in 1..(b - 1) :
             journal[a].kind = "P" /\ Triple(journal[a]) = Triple(journal[b])
    /\ \A a, b \in 1..Len(journal) :
         (journal[a].kind = journal[b].kind /\ Triple(journal[a]) = Triple(journal[b]))
            => a = b

\* C36 witness: the journal of an apply holds two P records and a C record
\* for the first of them, written after the second P record
C36_Witness ==
  /\ SyncRunning
  /\ Len(journal) >= 3
  /\ journal[1].kind = "P"
  /\ journal[2].kind = "P"
  /\ journal[3].kind = "C"
  /\ Triple(journal[3]) = Triple(journal[1])

----------------------------------------------------------------------------
(* Frame of sync_changes                                                    *)

\* the destination paths the diff names
DiffPaths(d, del) ==
  WritePaths(d) \cup OldPaths(d) \cup (IF del THEN PathsOf(d.removed) ELSE {})

\* a step of sync_changes (every step but the scan and a change made by
\* somebody else before the apply) leaves the source tree as it is and
\* changes no destination file outside the paths the diff names
SyncFrameStep ==
  (pc # "diffed" \/ pc' # "diffed") =>
    /\ srcTree' = srcTree
    /\ \A p \in Paths \ DiffPaths(diff, delete_removed) : dstTree'[p] = dstTree[p]

\* C37: sync_changes never writes or deletes anything under source_root, and
\* at the destination it changes only .jan-tmp, .jan-journal and the paths
\* named by diff.added, diff.modified, diff.renamed (old and new) and, when
\* delete_removed is set, diff.removed; every other destination file keeps
\* its content.
C37_Frame == [][SyncFrameStep]_vars

\* C37 witness: a sync without delete_removed has written a file and
\* returned Ok, and a destination file the diff lists as removed is still
\* there
C37_Witness ==
  /\ pc = "returned"
  /\ result = "ok"
  /\ ~delete_removed
  /\ WritePaths(diff) # {}
  /\ \E k \in 1..Len(diff.removed) :
       /\ diff.removed[k].path \notin DiffPaths(diff, delete_removed)
       /\ dstTree[diff.removed[k].path] = diff.removed[k].hash

----------------------------------------------------------------------------
(* SpecPhases: the two parallel phases of sync_changes on the diff of two   *)
(* scans over every path of PathTable, so that a diff with two renamed      *)
(* pairs occurs.  The state after SyncJournal::create is the initial state; *)
(* the phases run with every interleaving of the workers and with I/O       *)
(* failures.                                                                *)

WidePaths == DOMAIN PathTable

WideScans ==
  LET seqs == UNION {[1..k -> [path : WidePaths, hash : Hashes]] : k \in 0..MaxFiles}
  IN  {s \in seqs : UniquePaths(s)}

\* the tree a scan was taken of
TreeOfScan(scan) ==
  [p \in WidePaths |->
     IF \E k \in 1..Len(scan) : scan[k].path = p
     THEN scan[CHOOSE k \in 1..Len(scan) : scan[k].path = p].hash
     ELSE 0]

InitPhases ==
  /\ pc = "copy"
  /\ src_scan \in WideScans
  /\ dst_scan \in WideScans
  /\ diff = diff_scans(src_scan, dst_scan)
  /\ srcTree = TreeOfScan(src_scan)
  /\ dstTree = TreeOfScan(dst_scan)
  /\ dst0 = dstTree
  /\ pre = dstTree
  /\ delete_removed = FALSE
  /\ cli = NoCli
  /\ input = NoInput
  /\ tmpDir = TRUE
  /\ tmpFiles = {}
  /\ journalExists = TRUE
  /\ journal = << >>
  /\ workers = NewWorkers(Len(files_to_copy(diff)))
  /\ phaseErr = FALSE
  /\ written_dirs = {}
  /\ fsynced = {}
  /\ fsync_warned = {}
  /\ delIdx = 1
  /\ tempCounter = 0
  /\ NoWriter
  /\ pid = 1
  /\ result = "none"
  /\ crashed = FALSE
  /\ faults = 0
  /\ stuckFiles = {}
  /\ disk0 = EmptyDisk

NextPhases ==
  \/ Worker
  \/ PhaseFailed
  \/ CopyJoin
  \/ RenameJoin

SpecPhases == InitPhases /\ [][NextPhases]_vars

----------------------------------------------------------------------------
(* Disjointness of the rename workers                                       *)

NewPathOf(k) == diff.renamed[k][2].path
OldPathOf(k) == diff.renamed[k][1].path

\* the destination after the rename phase of diff d has joined without
\* error, whatever the order of the workers' steps: D is the destination
\* before the copy phase, S the source
AfterRenamePhase(S, D, d) ==
  LET copied == PathsOf(d.added) \cup PathsOf(d.modified)
      news == {d.renamed[k][2].path : k \in 1..Len(d.renamed)}
  IN  [p \in DOMAIN D |->
         IF p \in OldPaths(d) THEN 0
         ELSE IF p \in news \cup copied THEN S[p]
         ELSE D[p]]

\* the rename phase has joined without error
RenamePhaseDone ==
  /\ pc = "rename"
  /\ ~phaseErr
  /\ \A i \in 1..Len(workers) : workers[i].st = "done"

\* C38: in the diff of two scans with unique paths the new paths of the
\* renamed pairs are pairwise distinct, the old paths are pairwise distinct
\* and no old path equals any new path; and whatever the interleaving of the
\* workers of the rename phase, the destination the phase leaves is the same.
C38_RenameDisjoint ==
  /\ (UniquePaths(src_scan) /\ UniquePaths(dst_scan)) =>
       /\ \A a, b \in 1..Len(diff.renamed) :
            a # b => (NewPathOf(a) # NewPathOf(b) /\ OldPathOf(a) # OldPathOf(b))
       /\ \A a, b \in 1..Len(diff.renamed) : OldPathOf(a) # NewPathOf(b)
  /\ RenamePhaseDone => dstTree = AfterRenamePhase(srcTree, pre, diff)

\* C38 witness: the rename phase of a diff with two renamed pairs has joined,
\* and the second pair's worker committed its copy before the first pair's
\* worker did (the workers did not run in the order of diff.renamed)
C38_Witness ==
  /\ RenamePhaseDone
  /\ Len(diff.renamed) = 2
  /\ workers[2].tmp[2] < workers[1].tmp[2]

----------------------------------------------------------------------------
(* Consent before the destination is changed                                *)

\* the step with which the tool enters sync_changes on a diff with changes
EntersSync ==
  /\ pc = "diffed"
  /\ pc' \notin {"diffed", "exit"}
  /\ ~InSync(diff, delete_removed)

ConsentStep == EntersSync => (cli.yes \/ (input.read /\ answers_yes(input.line)))

\* C39: the command line tool calls sync_changes only after explicit
\* consent: with --yes, or after the user answered "y" to the confirmation
\* prompt, whatever the other flags are.
C39_Consent == [][ConsentStep]_vars

====
